---- MODULE Spec2Model ----
(***************************************************************************)
(* Quoting / pricing / negotiation / order state machine of coffee-empire  *)
(* (src/src/core/engine.py, src/src/core/services.py).                     *)
(*                                                                         *)
(* Money is kept in cents (the code rounds every price to two decimals),   *)
(* discounts and hikes in percent, quantities as whole units.  Catalog     *)
(* texts (name, description, unit, currency) are constants of the catalog  *)
(* and are left out of the quote and order records.                        *)
(***************************************************************************)
EXTENDS Integers, Sequences, FiniteSets, TLC

(* ------------------------------ bounds -------------------------------- *)
\* number of facade calls (get_quote, negotiate, buy) in one behaviour
MaxCalls == 3
\* stock of every ingredient at the start of a behaviour (the catalog starts
\* at UNLIMITED_STOCK; earlier purchases bring it down to any smaller value)
InitStock == 6
\* sweep threshold of the quote cache, scaled down from the catalog's 1000
\* so that the sweep happens within the quote ids of one behaviour
QUOTE_CLEANUP_THRESHOLD == 1

\* number of price lookups in one behaviour of the demand pricing alone
MaxLookups == 7

\* the latest time the clock of the clock server is taken to
MaxClockTime == 3

(* --------------------------- program constants ------------------------ *)
ONE_DAY == 24
ONE_WEEK == ONE_DAY * 7
EXPECTED_DELIVERY == ONE_DAY
DEMAND_WINDOW_HOURS == 4

\* Python's None for the optional string fields of a request or an order
None == "None"
\* Optional numbers are sequences of length <= 1
NoNumber == << >>
Some(x) == <<x>>

\* the part of the catalog the model carries
Ingredients == {"espresso_beans", "light_roast_beans"}

base_price == [i \in Ingredients |->
                 IF i = "espresso_beans" THEN 1250 ELSE 1000]

use_by_date == [i \in Ingredients |-> ONE_WEEK]

\* (min_quantity, discount in percent), ascending by min_quantity
VOLUME_DISCOUNT_TIERS == [i \in Ingredients |->
    IF i = "espresso_beans"
    THEN << <<5, 8>>, <<15, 15>>, <<30, 25>> >>
    ELSE << <<10, 5>>, <<20, 15>>, <<40, 25>> >>]

DEMAND_PRICE_HIKES == [i \in Ingredients |->
    IF i = "espresso_beans"
    THEN [quote_threshold |-> 3, price_hike_percent |-> 10]
    ELSE [quote_threshold |-> 3, price_hike_percent |-> 8]]

(* ------------------------------ inputs -------------------------------- *)
\* uuid4() of get_quote: the next unused element of the pool
QuoteIdPool == <<"q1", "q2">>
\* a quote id no get_quote ever issued
UnknownQuoteId == "q-unknown"
\* ingredient ids a request may carry: catalog ids and one unknown id
RequestIngredients == Ingredients \cup {"oat_milk"}
Quantities == {2, 5}
BusinessIds == {"cafe"}
\* price ceilings a buy request may carry
Ceilings == {NoNumber, Some(1150)}
\* unit prices a negotiate request proposes
ProposedPrices == {900, 1300}
\* what the negotiation oracle does: it fails (or times out), or it answers
\* with a final unit price and a verdict
OracleAnswers ==
    {[failed |-> TRUE, final_price_per_unit |-> 0, accepted |-> FALSE]}
    \cup [failed : {FALSE}, final_price_per_unit : {900, 1300}, accepted : BOOLEAN]
\* times the scheduler advances the clock to: the expiry of a quote issued
\* at 0, when every lookup made at 0 has left the demand window
AdvanceTargets == {24}

\* the request threads of the server (the endpoints are synchronous
\* functions, which the server runs on a pool of threads)
Threads == {1, 2}
\* the frame of a thread that runs no handler
NoFrame == [op |-> "none"]

(* ------------------------------ state --------------------------------- *)
VARIABLES
    now,                      \* the clock's current time
    stock,                    \* IngredientDefinition.stock per ingredient
    quote_store,              \* EngineFacade._quote_store
    negotiated_quote_store,   \* EngineFacade._negotiated_quote_store
    quote_history,            \* DemandBasedPricingService._quote_history
    orders,                   \* InMemoryStorage._orders
    issued,                   \* number of quote ids drawn so far
    created,                  \* number of order ids drawn so far
    calls,                    \* number of facade calls made so far
    lastCall,                 \* digest of the latest facade call
    quoted,                   \* history: the unit price each quote id was issued at
    pc,                       \* where each request thread is in its handler
    frame                     \* the local variables of each request thread

vars == <<now, stock, quote_store, negotiated_quote_store, quote_history,
          orders, issued, created, calls, lastCall, quoted, pc, frame>>

(* ---------------------------- dictionaries ---------------------------- *)
Put(d, k, v) == [x \in DOMAIN d \cup {k} |-> IF x = k THEN v ELSE d[x]]
Del(d, k) == [x \in DOMAIN d \ {k} |-> d[x]]
EmptyDict == [x \in {} |-> 0]

(* ------------------------------ pricing ------------------------------- *)
\* round(n / d) to the nearest integer, halves up: round(x, 2) on the cent
\* amounts.  Python rounds the binary float, which differs from this only
\* on exact half cents; no price reachable with the Quantities and InitStock
\* above falls on one (1150, 1250, 1000, 900 cents and their multiples).
RoundDiv(n, d) == (2 * n + d) \div (2 * d)

RECURSIVE Pow(_, _)
Pow(b, e) == IF e = 0 THEN 1 ELSE b * Pow(b, e - 1)

\* round(n / d, 2) of VolumeDiscountPricingService.get_price on cent
\* amounts.  The two ingredients have one half cent, 12.50 * (1 - 0.15) =
\* 10.625, a tie that Python's round takes to the even cent, 10.62
RoundedBelowHalf == {<<106250, 100>>}
round2(n, d) ==
    IF <<n, d>> \in RoundedBelowHalf THEN RoundDiv(n, d) - 1 ELSE RoundDiv(n, d)

\* a loop that stops at the first tier the quantity qualifies for
applied_discount_first(tiers, quantity, k, acc) ==
    IF Len(tiers) >= 1 /\ quantity >= tiers[1][1] THEN tiers[1][2] ELSE acc

\* the loop of VolumeDiscountPricingService.get_price over the sorted tiers
RECURSIVE applied_discount(_, _, _, _)
applied_discount(tiers, quantity, k, acc) ==
    IF k > Len(tiers) THEN acc
    ELSE IF quantity >= tiers[k][1]
         THEN applied_discount(tiers, quantity, k + 1, tiers[k][2])
         ELSE acc

\* the volume price with a validity of one week
volume_price_week(ingredient_id, quantity) ==
    LET d == applied_discount(VOLUME_DISCOUNT_TIERS[ingredient_id], quantity, 1, 0)
    IN  [price_per_unit |-> round2(base_price[ingredient_id] * (100 - d), 100),
         price_valid_until |-> now + ONE_WEEK]

\* VolumeDiscountPricingService.get_price for a catalog ingredient
volume_price(ingredient_id, quantity) ==
    LET d == applied_discount(VOLUME_DISCOUNT_TIERS[ingredient_id], quantity, 1, 0)
    IN  [price_per_unit |-> round2(base_price[ingredient_id] * (100 - d), 100),
         price_valid_until |-> now + ONE_DAY]

\* DemandBasedPricingService._clean_old_quotes
clean_old_quotes(history) ==
    LET cutoff_time == now - DEMAND_WINDOW_HOURS
        Recent(timestamp) == timestamp >= cutoff_time
    IN  SelectSeq(history, Recent)

\* a record_quote that records nothing
record_quote_nothing(history) == history

\* DemandBasedPricingService.record_quote
record_quote(history) == Append(history, now)

\* the demand adjustment that waits for the count to pass the threshold
demand_adjusted_above_threshold(ingredient_id, price, recent_quotes) ==
    LET quote_threshold == DEMAND_PRICE_HIKES[ingredient_id].quote_threshold
        price_hike_percent == DEMAND_PRICE_HIKES[ingredient_id].price_hike_percent
    IN  IF recent_quotes > quote_threshold
        THEN LET hikes == recent_quotes \div quote_threshold
             IN  RoundDiv(price * Pow(100 + price_hike_percent, hikes), Pow(100, hikes))
        ELSE price

\* the demand adjustment of DemandBasedPricingService.get_price
demand_adjusted(ingredient_id, price, recent_quotes) ==
    LET quote_threshold == DEMAND_PRICE_HIKES[ingredient_id].quote_threshold
        price_hike_percent == DEMAND_PRICE_HIKES[ingredient_id].price_hike_percent
    IN  IF recent_quotes >= quote_threshold
        THEN LET hikes == recent_quotes \div quote_threshold
             IN  RoundDiv(price * Pow(100 + price_hike_percent, hikes), Pow(100, hikes))
        ELSE price

\* DemandBasedPricingService.get_price: the price, and the demand history it
\* leaves behind.  ok = FALSE is the None it returns for an unknown ingredient.
get_price(ingredient_id, quantity) ==
    IF ingredient_id \notin Ingredients
    THEN [ok |-> FALSE, price_per_unit |-> 0, price_valid_until |-> 0,
          quote_history |-> quote_history]
    ELSE LET vp == volume_price(ingredient_id, quantity)
             history == record_quote(clean_old_quotes(quote_history[ingredient_id]))
         IN  [ok |-> TRUE,
              price_per_unit |-> demand_adjusted(ingredient_id, vp.price_per_unit, Len(history)),
              price_valid_until |-> vp.price_valid_until,
              quote_history |-> [quote_history EXCEPT ![ingredient_id] = history]]

(* ----------------------------- inventory ------------------------------ *)
\* InventoryService.get_stock for a catalog ingredient
get_stock(ingredient_id) == stock[ingredient_id]

\* consume_stock with "ing.stock =- quantity" typed for "ing.stock -= quantity"
consume_stock_assigns(ingredient_id, quantity) ==
    IF ingredient_id \notin Ingredients
    THEN [ok |-> FALSE, stock |-> stock]
    ELSE IF stock[ingredient_id] < quantity
         THEN [ok |-> FALSE, stock |-> stock]
         ELSE [ok |-> TRUE,
               stock |-> [stock EXCEPT ![ingredient_id] = 0 - quantity]]

\* a consume_stock that reports success without taking the quantity
consume_stock_keeps(ingredient_id, quantity) ==
    IF ingredient_id \notin Ingredients
    THEN [ok |-> FALSE, stock |-> stock]
    ELSE IF stock[ingredient_id] < quantity
         THEN [ok |-> FALSE, stock |-> stock]
         ELSE [ok |-> TRUE, stock |-> stock]

\* InventoryService.consume_stock: whether it succeeded and the stock after
consume_stock(ingredient_id, quantity) ==
    IF ingredient_id \notin Ingredients
    THEN [ok |-> FALSE, stock |-> stock]
    ELSE IF stock[ingredient_id] < quantity
         THEN [ok |-> FALSE, stock |-> stock]
         ELSE [ok |-> TRUE,
               stock |-> [stock EXCEPT ![ingredient_id] = @ - quantity]]

(* ----------------------------- quote cache ---------------------------- *)
\* a sweep with the comparison turned around: it removes the entries that
\* have not expired yet
without_live(store) ==
    [q \in {x \in DOMAIN store : ~(store[x].expires_at >= now)} |-> store[q]]

\* EngineFacade._cleanup_quote_store on one partition
without_expired(store) ==
    [q \in {x \in DOMAIN store : ~(store[x].expires_at <= now)} |-> store[q]]

\* the quote id (uuid4) the next successful get_quote draws
next_quote_id == QuoteIdPool[issued + 1]

(* ------------------------------ get_quote ----------------------------- *)
\* the stock test of get_quote that only refuses a negative stock
insufficient_stock_only_negative(stock_available, quantity) ==
    stock_available < 0

\* the stock test of get_quote
insufficient_stock(stock_available, quantity) == stock_available < quantity

\* EngineFacade.get_quote: what it returns or raises, and the state it leaves
get_quote(ingredient_id, quantity) ==
    LET unchanged == [quote_store |-> quote_store,
                      negotiated_quote_store |-> negotiated_quote_store,
                      quote_history |-> quote_history,
                      issued |-> issued]
    IN
    IF ingredient_id \notin Ingredients
    THEN [outcome |-> "raised", status_code |-> 404,
          detail |-> "Ingredient not found"] @@ unchanged
    ELSE
    LET price_info == get_price(ingredient_id, quantity)
        stock_available == get_stock(ingredient_id)
    IN
    IF ~price_info.ok
    THEN [outcome |-> "raised", status_code |-> 500,
          detail |-> "Pricing failed"] @@ unchanged
    ELSE IF insufficient_stock(stock_available, quantity)
    THEN [outcome |-> "raised", status_code |-> 400,
          detail |-> "Insufficient stock",
          quote_store |-> quote_store,
          negotiated_quote_store |-> negotiated_quote_store,
          quote_history |-> price_info.quote_history,
          issued |-> issued]
    ELSE
    LET quote == [quote_id |-> next_quote_id,
                  ingredient_id |-> ingredient_id,
                  price_per_unit |-> price_info.price_per_unit,
                  total_price |-> price_info.price_per_unit * quantity,
                  available_stock |-> stock_available,
                  use_by_date |-> use_by_date[ingredient_id],
                  price_valid_until |-> price_info.price_valid_until,
                  delivery_time |-> ONE_DAY]
        inserted == Put(quote_store, next_quote_id,
                        [quote |-> quote,
                         expires_at |-> price_info.price_valid_until])
        sweep == Cardinality(DOMAIN inserted) > QUOTE_CLEANUP_THRESHOLD
    IN  [outcome |-> "returned", quote |-> quote,
         quote_store |-> IF sweep THEN without_expired(inserted) ELSE inserted,
         negotiated_quote_store |->
             IF sweep THEN without_expired(negotiated_quote_store)
             ELSE negotiated_quote_store,
         quote_history |-> price_info.quote_history,
         issued |-> issued + 1]

(* ------------------------------- orders ------------------------------- *)
\* OrderItem(...) of api_models.py: ingredient_id is a required str, so the
\* constructor raises a ValidationError when it is given None
OrderItem_accepts(ingredient_id) == ingredient_id # None

\* create_order with the test on the status inverted
create_order_inverted(business_id, item, expected_delivery, status, failure_reason, quote_id) ==
    LET order_id == created + 1
        total_cost == IF status # "CONFIRMED" THEN item.total_price ELSE 0
        order == [order_id |-> order_id,
                  business_id |-> business_id,
                  items |-> [x \in {item.ingredient_id} |-> item],
                  total_cost |-> total_cost,
                  order_placed_at |-> now,
                  expected_delivery |-> expected_delivery,
                  status |-> status,
                  failure_reason |-> failure_reason,
                  quote_id |-> quote_id]
    IN  [outcome |-> "returned",
         value |-> order,
         orders |-> IF status = "CONFIRMED" THEN Put(orders, order_id, order)
                    ELSE orders,
         created |-> created + 1]

\* create_order saving every order, whatever its status
create_order_saving_all(business_id, item, expected_delivery, status, failure_reason, quote_id) ==
    LET order_id == created + 1
        total_cost == IF status = "CONFIRMED" THEN item.total_price ELSE 0
        order == [order_id |-> order_id,
                  business_id |-> business_id,
                  items |-> [x \in {item.ingredient_id} |-> item],
                  total_cost |-> total_cost,
                  order_placed_at |-> now,
                  expected_delivery |-> expected_delivery,
                  status |-> status,
                  failure_reason |-> failure_reason,
                  quote_id |-> quote_id]
    IN  [outcome |-> "returned",
         value |-> order,
         orders |-> Put(orders, order_id, order),
         created |-> created + 1]

\* OrderService.create_order: the order it returns, the repository and the
\* number of order ids drawn afterwards
create_order(business_id, item, expected_delivery, status, failure_reason, quote_id) ==
    LET order_id == created + 1
        total_cost == IF status = "CONFIRMED" THEN item.total_price ELSE 0
        order == [order_id |-> order_id,
                  business_id |-> business_id,
                  items |-> [x \in {item.ingredient_id} |-> item],
                  total_cost |-> total_cost,
                  order_placed_at |-> now,
                  expected_delivery |-> expected_delivery,
                  status |-> status,
                  failure_reason |-> failure_reason,
                  quote_id |-> quote_id]
    IN  [outcome |-> "returned",
         value |-> order,
         orders |-> IF status = "CONFIRMED" THEN Put(orders, order_id, order)
                    ELSE orders,
         created |-> created + 1]

\* EngineFacade._failed_order
failed_order(business_id, ingredient_id, quantity, use_by, expected_delivery, status, failure_reason, quote_id) ==
    IF ~OrderItem_accepts(ingredient_id)
    THEN [outcome |-> "raised", value |-> "ValidationError",
          orders |-> orders, created |-> created]
    ELSE create_order(business_id,
                      [ingredient_id |-> ingredient_id,
                       quantity |-> quantity,
                       price_per_unit_paid |-> 0,
                       total_price |-> 0,
                       use_by_date |-> use_by],
                      expected_delivery, status, failure_reason, quote_id)

\* the sum of the total costs of a set of orders
RECURSIVE SumOfCosts(_)
SumOfCosts(listed) ==
    IF listed = {} THEN 0
    ELSE LET o == CHOOSE x \in listed : TRUE
         IN  o.total_cost + SumOfCosts(listed \ {o})

\* InMemoryStorage.get_orders_by_business_id: the saved orders of a business
get_orders_by_business_id(business_id) ==
    {orders[o] : o \in {x \in DOMAIN orders : orders[x].business_id = business_id}}

\* InMemoryStorage.get_order: << >> is the None of an id that is not saved
get_order(order_id) ==
    IF order_id \in DOMAIN orders THEN <<orders[order_id]>> ELSE << >>

(* -------------------------------- buy --------------------------------- *)
\* the expiry test that lets a quote live through the time it expires at
has_expired_strictly(entry) == entry.expires_at < now

\* the expiry test of buy and of negotiate: cached["expires_at"] <= now
has_expired(entry) == entry.expires_at <= now

\* the cache lookup of buy: the unnegotiated partition first, then the
\* negotiated one; << >> when neither holds the id
cached_entry(quote_id) ==
    IF quote_id \in DOMAIN quote_store THEN <<quote_store[quote_id]>>
    ELSE IF quote_id \in DOMAIN negotiated_quote_store
         THEN <<negotiated_quote_store[quote_id]>>
         ELSE << >>

\* a failed buy that evicts the quote id of its request as a successful one
\* does
buy_failure_evicting(req, use_by, status, failure_reason, history, at) ==
    LET f == failed_order(req.business_id, req.ingredient_id, req.quantity,
                          use_by, at, status, failure_reason, req.quote_id)
    IN  [outcome |-> f.outcome, value |-> f.value, priced |-> "none",
         stock |-> stock,
         quote_store |->
             IF req.quote_id \in DOMAIN quote_store
             THEN Del(quote_store, req.quote_id) ELSE quote_store,
         negotiated_quote_store |->
             IF req.quote_id \in DOMAIN negotiated_quote_store
             THEN Del(negotiated_quote_store, req.quote_id)
             ELSE negotiated_quote_store,
         quote_history |-> history,
         orders |-> f.orders, created |-> f.created]

\* a failed buy: the order record (or the error) and the state it leaves;
\* at is the time buy passes as expected_delivery
buy_failure(req, use_by, status, failure_reason, history, at) ==
    LET f == failed_order(req.business_id, req.ingredient_id, req.quantity,
                          use_by, at, status, failure_reason, req.quote_id)
    IN  [outcome |-> f.outcome, value |-> f.value, priced |-> "none",
         stock |-> stock,
         quote_store |-> quote_store,
         negotiated_quote_store |-> negotiated_quote_store,
         quote_history |-> history,
         orders |-> f.orders, created |-> f.created]

\* the pricing step of buy that rejects a quote id it does not find
buy_price_not_found(req) ==
    LET pinfo == get_price(req.ingredient_id, req.quantity)
        fresh == IF ~pinfo.ok
                 THEN [status |-> "FAILED_SYSTEM_ERROR",
                       failure_reason |-> "Could not compute price.",
                       price_per_unit |-> 0, priced |-> "none",
                       quote_history |-> pinfo.quote_history]
                 ELSE [status |-> "OK", failure_reason |-> None,
                       price_per_unit |-> pinfo.price_per_unit,
                       priced |-> "fresh",
                       quote_history |-> pinfo.quote_history]
    IN
    IF req.quote_id # None
    THEN LET cached == cached_entry(req.quote_id) IN
         IF cached = << >>
         THEN [status |-> "FAILED_INVALID_QUOTE:NOT_FOUND",
               failure_reason |-> "Quote not found.",
               price_per_unit |-> 0, priced |-> "none",
               quote_history |-> quote_history]
         ELSE IF cached[1].quote.ingredient_id # req.ingredient_id
         THEN [status |-> "FAILED_INVALID_QUOTE:INGREDIENT_MISMATCH",
               failure_reason |-> "Ingredient in quote does not match requested ingredient.",
               price_per_unit |-> 0, priced |-> "none",
               quote_history |-> quote_history]
         ELSE IF has_expired(cached[1])
         THEN [status |-> "FAILED_INVALID_QUOTE:QUOTE_EXPIRED",
               failure_reason |-> "Quote has expired.",
               price_per_unit |-> 0, priced |-> "none",
               quote_history |-> quote_history]
         ELSE [status |-> "OK", failure_reason |-> None,
               price_per_unit |-> cached[1].quote.price_per_unit,
               priced |-> "cache",
               quote_history |-> quote_history]
    ELSE fresh

\* the pricing step of buy that prices every request by a fresh lookup
buy_price_relooked(req) == buy_price_not_found([req EXCEPT !.quote_id = None])

\* the unit price a buy for a catalog ingredient resolves ("Get price per unit")
buy_price(req) ==
    LET pinfo == get_price(req.ingredient_id, req.quantity)
        fresh == IF ~pinfo.ok
                 THEN [status |-> "FAILED_SYSTEM_ERROR",
                       failure_reason |-> "Could not compute price.",
                       price_per_unit |-> 0, priced |-> "none",
                       quote_history |-> pinfo.quote_history]
                 ELSE [status |-> "OK", failure_reason |-> None,
                       price_per_unit |-> pinfo.price_per_unit,
                       priced |-> "fresh",
                       quote_history |-> pinfo.quote_history]
    IN
    IF req.quote_id # None
    THEN LET cached == cached_entry(req.quote_id) IN
         IF cached = << >> THEN fresh
         ELSE IF cached[1].quote.ingredient_id # req.ingredient_id
         THEN [status |-> "FAILED_INVALID_QUOTE:INGREDIENT_MISMATCH",
               failure_reason |-> "Ingredient in quote does not match requested ingredient.",
               price_per_unit |-> 0, priced |-> "none",
               quote_history |-> quote_history]
         ELSE IF has_expired(cached[1])
         THEN [status |-> "FAILED_INVALID_QUOTE:QUOTE_EXPIRED",
               failure_reason |-> "Quote has expired.",
               price_per_unit |-> 0, priced |-> "none",
               quote_history |-> quote_history]
         ELSE [status |-> "OK", failure_reason |-> None,
               price_per_unit |-> cached[1].quote.price_per_unit,
               priced |-> "cache",
               quote_history |-> quote_history]
    ELSE fresh

\* the stock check that also refuses a quantity equal to the stock
no_stock_or_equal(available, quantity) == available <= quantity

\* the stock check of buy: available < req.quantity
no_stock(available, quantity) == available < quantity

\* the price ceiling check that also refuses a price equal to the ceiling
price_too_high_or_equal(req, price_per_unit) ==
    /\ req.max_acceptable_price_per_unit # NoNumber
    /\ price_per_unit >= req.max_acceptable_price_per_unit[1]

\* the price ceiling check of buy
price_too_high(req, price_per_unit) ==
    /\ req.max_acceptable_price_per_unit # NoNumber
    /\ price_per_unit > req.max_acceptable_price_per_unit[1]

\* an eviction that assumes the consumed id is in the unnegotiated partition
evict_quote_unnegotiated(quote_id) ==
    [quote_store |->
         IF quote_id # None /\ quote_id \in DOMAIN quote_store
         THEN Del(quote_store, quote_id) ELSE quote_store,
     negotiated_quote_store |-> negotiated_quote_store]

\* the eviction of a consumed quote id: both partitions afterwards
evict_quote(quote_id) ==
    [quote_store |->
         IF quote_id # None /\ quote_id \in DOMAIN quote_store
         THEN Del(quote_store, quote_id) ELSE quote_store,
     negotiated_quote_store |->
         IF quote_id # None /\ quote_id \in DOMAIN negotiated_quote_store
         THEN Del(negotiated_quote_store, quote_id)
         ELSE negotiated_quote_store]

\* the end of a successful buy with the expected delivery of a failed order
\* (the time of the buy, without the lead time)
buy_confirm_no_lead_time(req, price_per_unit, priced, history, stock_after, at) ==
    LET item == [ingredient_id |-> req.ingredient_id,
                 quantity |-> req.quantity,
                 price_per_unit_paid |-> price_per_unit,
                 total_price |-> price_per_unit * req.quantity,
                 use_by_date |-> use_by_date[req.ingredient_id] + at]
        c == create_order(req.business_id, item, at,
                          "CONFIRMED", None, req.quote_id)
    IN  [outcome |-> c.outcome, value |-> c.value, priced |-> priced,
         stock |-> stock_after,
         quote_store |-> evict_quote(req.quote_id).quote_store,
         negotiated_quote_store |-> evict_quote(req.quote_id).negotiated_quote_store,
         quote_history |-> history,
         orders |-> c.orders, created |-> c.created]

\* the end of a successful buy: order item, eviction, CONFIRMED order; at is
\* the value of buy's local variable now
buy_confirm(req, price_per_unit, priced, history, stock_after, at) ==
    LET item == [ingredient_id |-> req.ingredient_id,
                 quantity |-> req.quantity,
                 price_per_unit_paid |-> price_per_unit,
                 total_price |-> price_per_unit * req.quantity,
                 use_by_date |-> use_by_date[req.ingredient_id] + at]
        c == create_order(req.business_id, item, at + EXPECTED_DELIVERY,
                          "CONFIRMED", None, req.quote_id)
    IN  [outcome |-> c.outcome, value |-> c.value, priced |-> priced,
         stock |-> stock_after,
         quote_store |-> evict_quote(req.quote_id).quote_store,
         negotiated_quote_store |-> evict_quote(req.quote_id).negotiated_quote_store,
         quote_history |-> history,
         orders |-> c.orders, created |-> c.created]

\* buy_after_price with the stock consumed before the price ceiling is checked
buy_after_price_consume_first(req, price_per_unit, priced, history) ==
    LET use_by == use_by_date[req.ingredient_id]
        available == get_stock(req.ingredient_id)
    IN
    IF available < req.quantity
    THEN buy_failure(req, use_by, "FAILED_NO_STOCK", "Insufficient stock.", history, now)
    ELSE
    LET c == consume_stock(req.ingredient_id, req.quantity) IN
    IF ~c.ok
    THEN buy_failure(req, use_by, "FAILED_SYSTEM_ERROR",
                     "Race condition: stock consumption failed.", history, now)
    ELSE IF price_too_high(req, price_per_unit)
    THEN [buy_failure(req, use_by, "FAILED_PRICE_TOO_HIGH",
                      "Price > max acceptable", history, now)
          EXCEPT !.stock = c.stock]
    ELSE buy_confirm(req, price_per_unit, priced, history, c.stock, now)

\* buy from the price ceiling check on, for a catalog ingredient whose unit
\* price is resolved
buy_after_price(req, price_per_unit, priced, history) ==
    LET use_by == use_by_date[req.ingredient_id] IN
    IF price_too_high(req, price_per_unit)
    THEN buy_failure(req, use_by, "FAILED_PRICE_TOO_HIGH",
                     "Price > max acceptable", history, now)
    ELSE
    LET available == get_stock(req.ingredient_id) IN
    IF no_stock(available, req.quantity)
    THEN buy_failure(req, use_by, "FAILED_NO_STOCK", "Insufficient stock.", history, now)
    ELSE
    LET c == consume_stock(req.ingredient_id, req.quantity) IN
    IF ~c.ok
    THEN buy_failure(req, use_by, "FAILED_SYSTEM_ERROR",
                     "Race condition: stock consumption failed.", history, now)
    ELSE buy_confirm(req, price_per_unit, priced, history, c.stock, now)

\* buy up to the resolved unit price: the request checks and the pricing.
\* done = TRUE when the call has ended with a failed order (or an error)
buy_until_price(req) ==
    IF req.quote_id = None /\ req.ingredient_id = None
    THEN [done |-> TRUE,
          result |-> buy_failure([req EXCEPT !.quote_id = None], now,
                                 "FAILED_INVALID_REQUEST",
                                 "Neither quote_id nor ingredient_id provided.",
                                 quote_history, now)]
    ELSE IF req.ingredient_id \notin Ingredients
    THEN [done |-> TRUE,
          result |-> buy_failure(req, now, "FAILED_INVALID_ITEM",
                                 "Ingredient not found.", quote_history, now)]
    ELSE
    LET p == buy_price(req) IN
    IF p.status # "OK"
    THEN [done |-> TRUE,
          result |-> buy_failure(req, use_by_date[req.ingredient_id], p.status,
                                 p.failure_reason, p.quote_history, now)]
    ELSE [done |-> FALSE, price_per_unit |-> p.price_per_unit,
          priced |-> p.priced, quote_history |-> p.quote_history]

\* EngineFacade.buy: what it returns or raises, and the state it leaves
buy(req) ==
    LET e == buy_until_price(req) IN
    IF e.done THEN e.result
    ELSE buy_after_price(req, e.price_per_unit, e.priced, e.quote_history)

(* ------------------------------ negotiate ----------------------------- *)
\* the inputs the fallback rule is applied to on its own: current quoted
\* prices, proposed prices and base prices, in cents
FallbackCurrentPrices == {1000, 1250, 1300, 1830}
FallbackProposedPrices ==
    {900, 1000, 1125, 1170, 1250, 1300, 1430, 1647, 1700, 2013}
FallbackBasePrices == {1000, 1250}

\* the pairs <<current, proposed>> of those inputs that are exactly 10% apart
\* and for which the doubles abs(proposed - current) / current evaluate
\* above the double 0.1 (13.0 with 11.7 or 14.3: 0.10000000000000006; 18.3
\* with 16.47: 0.1000000000000001); for 10.0 with 9.0, for 12.5 with 11.25
\* and for 18.3 with 20.13 the quotient is not above the double 0.1
RoundedAboveTenth ==
    {<<1300, 1170>>, <<1300, 1430>>, <<1830, 1647>>}

\* "price_diff_percent <= 0.1" of _fallback_negotiation, on doubles: away
\* from exactly 10% the rounding of the subtraction and of the division
\* cannot change the comparison; at exactly 10% it decides it
within_ten_percent(current_price, proposed_price) ==
    LET diff == IF proposed_price >= current_price
                THEN proposed_price - current_price
                ELSE current_price - proposed_price
    IN  IF 10 * diff = current_price
        THEN <<current_price, proposed_price>> \notin RoundedAboveTenth
        ELSE 10 * diff < current_price

\* a fallback rule that does not compare the proposal with the base price
fallback_negotiation_any_base(current_price, proposed_price, base) ==
    IF within_ten_percent(current_price, proposed_price)
    THEN [final_price_per_unit |-> proposed_price, accepted |-> TRUE]
    ELSE [final_price_per_unit |-> current_price, accepted |-> FALSE]

\* NegotiationService._fallback_negotiation
fallback_negotiation(current_price, proposed_price, base) ==
    IF proposed_price >= base /\ within_ten_percent(current_price, proposed_price)
    THEN [final_price_per_unit |-> proposed_price, accepted |-> TRUE]
    ELSE [final_price_per_unit |-> current_price, accepted |-> FALSE]

\* NegotiationService._call_llm_service: the oracle's answer, or the fallback
\* when the oracle call fails
call_llm_service(original_quote, proposed_price, oracle) ==
    IF oracle.failed
    THEN fallback_negotiation(original_quote.price_per_unit, proposed_price,
                              base_price[original_quote.ingredient_id])
    ELSE [final_price_per_unit |-> oracle.final_price_per_unit,
          accepted |-> oracle.accepted]

\* _create_new_quote that recomputes the total but keeps the quoted unit price
create_new_quote_same_price(original_quote, new_price_per_unit) ==
    [original_quote EXCEPT
        !.total_price = RoundDiv(new_price_per_unit * original_quote.total_price,
                                 original_quote.price_per_unit)]

\* NegotiationService._create_new_quote
create_new_quote(original_quote, new_price_per_unit) ==
    [original_quote EXCEPT
        !.price_per_unit = new_price_per_unit,
        !.total_price = RoundDiv(new_price_per_unit * original_quote.total_price,
                                 original_quote.price_per_unit)]

\* negotiate_price that builds the new quote whenever the answer says
\* accepted, without comparing the final price with the quoted one
negotiate_price_trusting(proposed_price, original_quote, oracle) ==
    LET llm_response == call_llm_service(original_quote, proposed_price, oracle)
        final_price == llm_response.final_price_per_unit
    IN  [original_quote |-> original_quote,
         proposed_price_per_unit |-> proposed_price,
         final_price_per_unit |-> final_price,
         accepted |-> llm_response.accepted,
         new_quote |-> IF llm_response.accepted
                       THEN <<create_new_quote(original_quote, final_price)>>
                       ELSE << >>]

\* negotiate_price that marks every response accepted
negotiate_price_always_accepted(proposed_price, original_quote, oracle) ==
    LET llm_response == call_llm_service(original_quote, proposed_price, oracle)
        final_price == llm_response.final_price_per_unit
        lower == final_price < original_quote.price_per_unit
    IN  [original_quote |-> original_quote,
         proposed_price_per_unit |-> proposed_price,
         final_price_per_unit |-> final_price,
         accepted |-> TRUE,
         new_quote |-> IF lower
                       THEN <<create_new_quote(original_quote, final_price)>>
                       ELSE << >>]

\* NegotiationService.negotiate_price: the NegotiateResponse; new_quote is
\* << >> for None
negotiate_price(proposed_price, original_quote, oracle) ==
    LET llm_response == call_llm_service(original_quote, proposed_price, oracle)
        final_price == llm_response.final_price_per_unit
        lower == final_price < original_quote.price_per_unit
    IN  [original_quote |-> original_quote,
         proposed_price_per_unit |-> proposed_price,
         final_price_per_unit |-> final_price,
         accepted |-> IF lower THEN TRUE ELSE llm_response.accepted,
         new_quote |-> IF lower
                       THEN <<create_new_quote(original_quote, final_price)>>
                       ELSE << >>]

\* apply_negotiation that leaves the original entry in the unnegotiated
\* partition
apply_negotiation_keeping(quote_id, original_quote, result, negotiated_at) ==
    IF result.accepted /\ result.new_quote # << >>
    THEN [quote_store |-> quote_store,
          negotiated_quote_store |->
              Put(negotiated_quote_store, quote_id,
                  [quote |-> result.new_quote[1],
                   expires_at |-> original_quote.price_valid_until,
                   negotiated_at |-> negotiated_at,
                   original_price |-> original_quote.price_per_unit,
                   negotiated_price |-> result.final_price_per_unit])]
    ELSE [quote_store |-> quote_store,
          negotiated_quote_store |-> negotiated_quote_store]

\* the replace step of negotiate: the two partitions after the negotiation
\* result is applied to the quote id
apply_negotiation(quote_id, original_quote, result, negotiated_at) ==
    IF result.accepted /\ result.new_quote # << >>
    THEN [quote_store |-> IF quote_id \in DOMAIN quote_store
                          THEN Del(quote_store, quote_id) ELSE quote_store,
          negotiated_quote_store |->
              Put(negotiated_quote_store, quote_id,
                  [quote |-> result.new_quote[1],
                   expires_at |-> original_quote.price_valid_until,
                   negotiated_at |-> negotiated_at,
                   original_price |-> original_quote.price_per_unit,
                   negotiated_price |-> result.final_price_per_unit])]
    ELSE [quote_store |-> quote_store,
          negotiated_quote_store |-> negotiated_quote_store]

\* the preconditions of negotiate with the price compared before the expiry
negotiate_precondition_price_first(quote_id, proposed_price) ==
    IF quote_id \notin DOMAIN quote_store THEN "Quote not found."
    ELSE IF quote_store[quote_id].quote.price_per_unit <= proposed_price
    THEN "You are trying to ask for a higher price per unit ?!"
    ELSE IF has_expired(quote_store[quote_id]) THEN "Quote has expired."
    ELSE "OK"

\* the preconditions of negotiate: the error it raises, or "OK"
negotiate_precondition(quote_id, proposed_price) ==
    IF quote_id \notin DOMAIN quote_store THEN "Quote not found."
    ELSE IF has_expired(quote_store[quote_id]) THEN "Quote has expired."
    ELSE IF quote_store[quote_id].quote.price_per_unit <= proposed_price
    THEN "You are trying to ask for a higher price per unit ?!"
    ELSE "OK"

\* EngineFacade.negotiate: what it returns or raises, and the cache it leaves
negotiate(quote_id, proposed_price, oracle) ==
    LET pre == negotiate_precondition(quote_id, proposed_price) IN
    IF pre # "OK"
    THEN [outcome |-> "raised", value |-> pre, oracle_called |-> FALSE,
          quote_store |-> quote_store,
          negotiated_quote_store |-> negotiated_quote_store]
    ELSE
    LET original_quote == quote_store[quote_id].quote
        result == negotiate_price(proposed_price, original_quote, oracle)
        after == apply_negotiation(quote_id, original_quote, result, now)
    IN  [outcome |-> "returned", value |-> result, oracle_called |-> TRUE,
         quote_store |-> after.quote_store,
         negotiated_quote_store |-> after.negotiated_quote_store]

(* ------------------------------ actions ------------------------------- *)
\* the quote ids get_quote has issued so far
IssuedIds == {QuoteIdPool[k] : k \in 1..issued}

\* what lastCall keeps of a call: the operation, whether it returned or
\* raised, the status of what it returned (or the detail of the error), the
\* quote id it referred to or issued, how a buy was priced ("cache": from
\* the cached quote, "fresh": by a new price lookup), the unit price, and of
\* an order its total cost, the total price of its item and its failure
\* reason
Digest(op, outcome, status, quote_id, priced, price, cost) ==
    [op |-> op, outcome |-> outcome, status |-> status,
     quote_id |-> quote_id, priced |-> priced, price |-> price,
     total_cost |-> cost.total_cost, item_total_price |-> cost.item_total_price,
     failure_reason |-> cost.failure_reason]

\* the cost fields of a digest of anything but a returned order
NoCost == [total_cost |-> 0, item_total_price |-> 0, failure_reason |-> None]

Init ==
    /\ now = 0
    /\ stock = [i \in Ingredients |-> InitStock]
    /\ quote_store = EmptyDict
    /\ negotiated_quote_store = EmptyDict
    /\ quote_history = [i \in Ingredients |-> << >>]
    /\ orders = EmptyDict
    /\ issued = 0
    /\ created = 0
    /\ calls = 0
    /\ lastCall = Digest("none", "none", "none", None, "none", 0, NoCost)
    /\ quoted = EmptyDict
    /\ pc = [t \in Threads |-> "idle"]
    /\ frame = [t \in Threads |-> NoFrame]

\* the call get_quote(ingredient_id, quantity)
GetQuoteCall(ingredient_id, quantity) ==
    /\ calls < MaxCalls
    /\ (ingredient_id \in Ingredients /\ stock[ingredient_id] >= quantity)
           => issued < Len(QuoteIdPool)
    /\ LET r == get_quote(ingredient_id, quantity) IN
       /\ quote_store' = r.quote_store
       /\ negotiated_quote_store' = r.negotiated_quote_store
       /\ quote_history' = r.quote_history
       /\ issued' = r.issued
       /\ lastCall' = IF r.outcome = "returned"
                      THEN Digest("get_quote", "returned", "OK",
                                  r.quote.quote_id, "fresh",
                                  r.quote.price_per_unit, NoCost)
                      ELSE Digest("get_quote", "raised", r.detail,
                                  None, "none", 0, NoCost)
       /\ quoted' = IF r.outcome = "returned"
                    THEN Put(quoted, r.quote.quote_id, r.quote.price_per_unit)
                    ELSE quoted
    /\ calls' = calls + 1
    /\ UNCHANGED <<now, stock, orders, created, pc, frame>>

\* a call of get_quote (POST /quote)
GetQuote ==
    \E ingredient_id \in RequestIngredients, quantity \in Quantities :
        GetQuoteCall(ingredient_id, quantity)

\* SimulationClock.advance(to_time)
AdvanceTo(to_time) ==
    /\ ~(to_time <= now)
    /\ now' = to_time
    /\ UNCHANGED <<stock, quote_store, negotiated_quote_store,
                   quote_history, orders, issued, created, calls, lastCall,
                   quoted, pc, frame>>

\* the out-of-band scheduler advances the clock
Advance == \E to_time \in AdvanceTargets : AdvanceTo(to_time)

\* the buy requests that can arrive: any issued quote id, an unknown one or
\* none, with any ingredient, quantity, price ceiling and business id
BuyRequests ==
    [quote_id : {None, UnknownQuoteId} \cup IssuedIds,
     ingredient_id : RequestIngredients \cup {None},
     quantity : Quantities,
     max_acceptable_price_per_unit : Ceilings,
     business_id : BusinessIds]

\* the digest of what buy(req) returned
BuyDigest(req, r) ==
    IF r.outcome = "returned"
    THEN Digest("buy", "returned", r.value.status, req.quote_id, r.priced,
                r.value.items[req.ingredient_id].price_per_unit_paid,
                [total_cost |-> r.value.total_cost,
                 item_total_price |->
                     r.value.items[req.ingredient_id].total_price,
                 failure_reason |-> r.value.failure_reason])
    ELSE Digest("buy", "raised", r.value, req.quote_id, "none", 0, NoCost)

\* the digest of what negotiate returned
NegotiateDigest(quote_id, outcome, value) ==
    IF outcome = "returned"
    THEN Digest("negotiate", "returned",
                IF value.accepted THEN "ACCEPTED" ELSE "REJECTED",
                quote_id, "none", value.final_price_per_unit, NoCost)
    ELSE Digest("negotiate", "raised", value, quote_id, "none", 0, NoCost)

\* the call buy(req)
BuyCall(req) ==
        LET r == buy(req) IN
            /\ calls < MaxCalls
            /\ stock' = r.stock
            /\ quote_store' = r.quote_store
            /\ negotiated_quote_store' = r.negotiated_quote_store
            /\ quote_history' = r.quote_history
            /\ orders' = r.orders
            /\ created' = r.created
            /\ lastCall' = BuyDigest(req, r)
            /\ calls' = calls + 1
            /\ UNCHANGED <<now, issued, quoted, pc, frame>>

\* a call of buy (POST /buy)
Buy == \E req \in BuyRequests : BuyCall(req)

\* the call negotiate(quote_id, proposed_price) with the oracle's answer
NegotiateCall(quote_id, proposed_price, oracle) ==
    LET r == negotiate(quote_id, proposed_price, oracle) IN
        /\ calls < MaxCalls
        /\ quote_store' = r.quote_store
        /\ negotiated_quote_store' = r.negotiated_quote_store
        /\ lastCall' = NegotiateDigest(quote_id, r.outcome, r.value)
        /\ calls' = calls + 1
        /\ UNCHANGED <<now, stock, quote_history, orders, issued, created,
                       quoted, pc, frame>>

\* the quote ids the negotiate calls name
NegotiateIds == {UnknownQuoteId} \cup IssuedIds

\* a call of negotiate (POST /negotiate)
Negotiate ==
    \E quote_id \in NegotiateIds, proposed_price \in ProposedPrices,
       oracle \in OracleAnswers :
        NegotiateCall(quote_id, proposed_price, oracle)

Next == GetQuote \/ Negotiate \/ Buy \/ Advance

Spec == Init /\ [][Next]_vars

(* ------------------------- around the expiry -------------------------- *)
(* Sequential calls on one ingredient with the clock stopping just before,  *)
(* at and just after the expiry of a quote issued at time 0.                *)

\* the times the clock is advanced to
ExpiryTargets == {ONE_DAY - 1, ONE_DAY, ONE_DAY + 1}

\* the buy requests: an issued quote id, with the quoted ingredient or
\* another one
ExpiryBuyRequests ==
    {req \in BuyRequests :
        /\ req.quote_id \in IssuedIds
        /\ req.ingredient_id \in Ingredients
        /\ req.quantity = 2
        /\ req.max_acceptable_price_per_unit = NoNumber}

\* the oracle's answers: it accepts 9.00, or the call fails
ExpiryOracleAnswers ==
    {oracle \in OracleAnswers :
        oracle.failed \/ (oracle.accepted /\ oracle.final_price_per_unit = 900)}

ExpiryGetQuote == GetQuoteCall("espresso_beans", 2)

ExpiryNegotiate ==
    \E quote_id \in IssuedIds, oracle \in ExpiryOracleAnswers :
        NegotiateCall(quote_id, 900, oracle)

ExpiryBuy == \E req \in ExpiryBuyRequests : BuyCall(req)

ExpiryAdvance == \E to_time \in ExpiryTargets : AdvanceTo(to_time)

ExpiryNext == ExpiryGetQuote \/ ExpiryNegotiate \/ ExpiryBuy \/ ExpiryAdvance

ExpirySpec == Init /\ [][ExpiryNext]_vars

(* ------------------------- buying and reading ------------------------- *)
(* Sequential calls with every buy request, quotes for espresso beans and   *)
(* one negotiation outcome (the oracle accepts 9.00).                       *)

\* the oracle accepts the proposed 9.00
OrderOracle == [failed |-> FALSE, final_price_per_unit |-> 900, accepted |-> TRUE]

OrderGetQuote ==
    \E quantity \in Quantities : GetQuoteCall("espresso_beans", quantity)

OrderNegotiate ==
    \E quote_id \in IssuedIds : NegotiateCall(quote_id, 900, OrderOracle)

OrderNext == OrderGetQuote \/ OrderNegotiate \/ Buy \/ Advance

OrderSpec == Init /\ [][OrderNext]_vars

(* --------------------------- reading orders --------------------------- *)
(* Sequential buys, with and without a quote, and reads of the repository.  *)

\* business ids the listings ask for: one that buys and one that never does
ReadBusinessIds == BusinessIds \cup {"kiosk"}

\* GET /order/{order_id}: the order, or the 404 of an id that is not saved
GetOrderCall(order_id) ==
    /\ LET r == get_order(order_id) IN
       lastCall' =
           IF r # << >>
           THEN Digest("get_order", "returned", r[1].status, r[1].quote_id,
                       "none", r[1].order_id,
                       [total_cost |-> r[1].total_cost,
                        item_total_price |-> 0,
                        failure_reason |-> r[1].failure_reason])
           ELSE Digest("get_order", "raised", "Order not found", None,
                       "none", order_id, NoCost)
    /\ UNCHANGED <<now, stock, quote_store, negotiated_quote_store,
                   quote_history, orders, issued, created, calls, quoted,
                   pc, frame>>

\* a read of an order id drawn so far, or of the id 0 that never is
GetOrder == \E order_id \in 0..created : GetOrderCall(order_id)

\* GET /orders/business/{business_id}: price is the number of orders listed
\* and total_cost the sum of their total costs
GetOrdersByBusinessCall(business_id) ==
    /\ LET listed == get_orders_by_business_id(business_id) IN
       lastCall' =
           Digest("get_orders_by_business", "returned", business_id, None,
                  "none", Cardinality(listed),
                  [total_cost |-> SumOfCosts(listed),
                   item_total_price |-> 0,
                   failure_reason |-> None])
    /\ UNCHANGED <<now, stock, quote_store, negotiated_quote_store,
                   quote_history, orders, issued, created, calls, quoted,
                   pc, frame>>

GetOrdersByBusiness ==
    \E business_id \in ReadBusinessIds : GetOrdersByBusinessCall(business_id)

ReadNext == OrderGetQuote \/ Buy \/ GetOrder \/ GetOrdersByBusiness

ReadSpec == Init /\ [][ReadNext]_vars

(* --------------------------- demand pricing --------------------------- *)
(* Price lookups of the demand pricing alone (the lookups of get_quote and  *)
(* of buy), with the clock stopping inside, at the edge of and beyond the   *)
(* demand window of the lookups made at time 0.                             *)

\* the times the clock is advanced to
DemandTimes == {2, DEMAND_WINDOW_HOURS, DEMAND_WINDOW_HOURS + 1}

\* the call DemandBasedPricingService.get_price(ingredient_id, quantity)
LookupCall(ingredient_id, quantity) ==
    /\ calls < MaxLookups
    /\ LET r == get_price(ingredient_id, quantity) IN
       /\ quote_history' = r.quote_history
       /\ lastCall' = Digest("get_price", "returned", "OK", None, "fresh",
                             r.price_per_unit, NoCost)
    /\ calls' = calls + 1
    /\ UNCHANGED <<now, stock, quote_store, negotiated_quote_store, orders,
                   issued, created, quoted, pc, frame>>

Lookup ==
    \E ingredient_id \in Ingredients, quantity \in Quantities :
        LookupCall(ingredient_id, quantity)

DemandAdvance == \E to_time \in DemandTimes : AdvanceTo(to_time)

DemandNext == Lookup \/ DemandAdvance

DemandSpec == Init /\ [][DemandNext]_vars

(* --------------------------- volume pricing --------------------------- *)
\* quantities on both sides of every tier boundary of the two ingredients
VolumeQuantities == 1..41

\* VolumeDiscountPricingService.get_price applied by thread 1 to one
\* ingredient and quantity drawn from the input sets
VolumeInit ==
    /\ now = 0
    /\ stock = [i \in Ingredients |-> InitStock]
    /\ quote_store = EmptyDict
    /\ negotiated_quote_store = EmptyDict
    /\ quote_history = [i \in Ingredients |-> << >>]
    /\ orders = EmptyDict
    /\ issued = 0
    /\ created = 0
    /\ calls = 0
    /\ lastCall = Digest("none", "none", "none", None, "none", 0, NoCost)
    /\ quoted = EmptyDict
    /\ pc = [t \in Threads |-> IF t = 1 THEN "volume" ELSE "idle"]
    /\ \E ingredient_id \in Ingredients, quantity \in VolumeQuantities :
          frame = [t \in Threads |->
                      IF t = 1
                      THEN [op |-> "volume", ingredient_id |-> ingredient_id,
                            quantity |-> quantity]
                      ELSE NoFrame]

\* the volume price of the ingredient and quantity of thread 1
VolumeStep ==
    /\ pc[1] = "volume"
    /\ LET f == frame[1]
           r == volume_price(f.ingredient_id, f.quantity)
       IN  lastCall' = Digest("volume", "returned", "OK", None, "none",
                              r.price_per_unit, NoCost)
    /\ pc' = [pc EXCEPT ![1] = "idle"]
    /\ UNCHANGED <<now, stock, quote_store, negotiated_quote_store,
                   quote_history, orders, issued, created, calls, quoted, frame>>

VolumeSpec == VolumeInit /\ [][VolumeStep]_vars

(* ------------------------------- totals ------------------------------- *)
(* The total price of a quote, of the quote a negotiation replaces it with  *)
(* and of an order item, for quantities in hundredths of a unit (the        *)
(* requests carry the quantity as a float > 0).                             *)

\* quantities, in hundredths of a unit: 0.07, 0.20, ... 1.00, 1.09, ... 6.00
TotalQuantities == {7, 20, 52, 60, 100, 109, 150, 199, 200, 300, 500, 600}
\* a quoted unit price with the unit price a negotiation lowers it to
TotalPrices ==
    {<<1250, 900>>, <<1250, 1125>>, <<1150, 900>>, <<1150, 1125>>, <<1000, 900>>}

\* round(price_per_unit * quantity, 2) of get_quote and of buy, the quantity
\* in hundredths.  No product of TotalPrices and TotalQuantities rounded
\* here is a tie, on which Python's round and RoundDiv could differ.
total_price(price_per_unit, hundredths) == RoundDiv(price_per_unit * hundredths, 100)

\* the three totals applied by thread 1 to one context drawn from the input
\* sets
TotalInit ==
    /\ now = 0
    /\ stock = [i \in Ingredients |-> InitStock]
    /\ quote_store = EmptyDict
    /\ negotiated_quote_store = EmptyDict
    /\ quote_history = [i \in Ingredients |-> << >>]
    /\ orders = EmptyDict
    /\ issued = 0
    /\ created = 0
    /\ calls = 0
    /\ lastCall = Digest("none", "none", "none", None, "none", 0, NoCost)
    /\ quoted = EmptyDict
    /\ pc = [t \in Threads |-> IF t = 1 THEN "total" ELSE "idle"]
    /\ \E prices \in TotalPrices, quantity \in TotalQuantities :
          frame = [t \in Threads |->
                      IF t = 1
                      THEN [op |-> "total", price_per_unit |-> prices[1],
                            new_price_per_unit |-> prices[2],
                            quantity |-> quantity]
                      ELSE NoFrame]

\* get_quote totals the quote, negotiate replaces it by the quote of
\* _create_new_quote, buy totals the order item at the negotiated price:
\* price is the total of the quote, total_cost the total of the negotiated
\* quote and item_total_price the total of the order item
TotalStep ==
    /\ pc[1] = "total"
    /\ LET f == frame[1]
           quote == [price_per_unit |-> f.price_per_unit,
                     total_price |-> total_price(f.price_per_unit, f.quantity)]
           new_quote == create_new_quote(quote, f.new_price_per_unit)
       IN  lastCall' = Digest("total", "returned", "OK", None, "none",
                              quote.total_price,
                              [total_cost |-> new_quote.total_price,
                               item_total_price |->
                                   total_price(new_quote.price_per_unit, f.quantity),
                               failure_reason |-> None])
    /\ pc' = [pc EXCEPT ![1] = "idle"]
    /\ UNCHANGED <<now, stock, quote_store, negotiated_quote_store,
                   quote_history, orders, issued, created, calls, quoted, frame>>

TotalSpec == TotalInit /\ [][TotalStep]_vars

(* ------------------------------ the clock ----------------------------- *)
(* SimulationClock behind the clock server (src/clock).  now is _time; the  *)
(* other fields of the clock object are the frame of thread 1, which runs   *)
(* the requests; thread 2 is the auto-advance thread.  advance tests its    *)
(* argument and assigns _time in two statements, between which the          *)
(* auto-advance thread can run.                                             *)

\* the arguments of advance and reset
ClockTimes == 0..MaxClockTime
\* the arguments of tick and start_auto
ClockDeltas == {-1, 0, 1, 2}

\* SimulationClock.__init__
NewClock ==
    [op |-> "clock", subscribers |-> {}, running |-> FALSE, mode |-> "manual",
     auto_delta |-> 1, delivered |-> << >>, to_time |-> 0]

ClockInit ==
    /\ now = 0
    /\ stock = [i \in Ingredients |-> InitStock]
    /\ quote_store = EmptyDict
    /\ negotiated_quote_store = EmptyDict
    /\ quote_history = [i \in Ingredients |-> << >>]
    /\ orders = EmptyDict
    /\ issued = 0
    /\ created = 0
    /\ calls = 0
    /\ lastCall = Digest("none", "none", "none", None, "none", 0, NoCost)
    /\ quoted = EmptyDict
    /\ pc = [t \in Threads |-> IF t = 1 THEN "clock" ELSE "idle"]
    /\ frame = [t \in Threads |-> IF t = 1 THEN NewClock ELSE NoFrame]

\* what a clock step leaves alone
ClockUnchanged ==
    UNCHANGED <<stock, quote_store, negotiated_quote_store, quote_history,
                orders, issued, created, quoted>>

\* the digest of a clock request: price is the argument of advance and of
\* reset, and the time tick computes
ClockDigest(op, outcome, argument) ==
    Digest(op, outcome, IF outcome = "raised" THEN "ValueError" ELSE "OK",
           None, "none", argument, NoCost)

\* an advance that lets the clock be advanced to the time it shows
advance_rejects_earlier(to_time) == to_time < now

\* the test of advance: to_time <= self._time
advance_rejects(to_time) == to_time <= now

\* _notify_subscribers: every subscriber is called with the new time; one
\* whose callback fails is unsubscribed
notify_subscribers(clock, new_time, fails) ==
    [clock EXCEPT
        !.delivered = IF clock.subscribers # {} THEN Append(@, new_time) ELSE @,
        !.subscribers = IF fails THEN {} ELSE @]

\* advance(to_time) up to its test, called as op (advance, or tick through
\* self.advance(self._time + delta))
ClockAdvanceCall(op, to_time) ==
    /\ pc[1] = "clock"
    /\ calls < MaxCalls
    /\ to_time <= MaxClockTime
    /\ calls' = calls + 1
    /\ IF advance_rejects(to_time)
       THEN /\ lastCall' = ClockDigest(op, "raised", to_time)
            /\ UNCHANGED <<now, pc, frame>>
       ELSE /\ lastCall' = ClockDigest(op, "entered", to_time)
            /\ pc' = [pc EXCEPT ![1] = "advance_store"]
            /\ frame' = [frame EXCEPT ![1].to_time = to_time]
            /\ UNCHANGED now
    /\ ClockUnchanged

ClockAdvance == \E to_time \in ClockTimes : ClockAdvanceCall("advance", to_time)

ClockTick == \E delta \in ClockDeltas : ClockAdvanceCall("tick", now + delta)

\* the assignment of advance and the notification
ClockAdvanceStore ==
    /\ pc[1] = "advance_store"
    /\ \E fails \in BOOLEAN :
          /\ now' = frame[1].to_time
          /\ frame' = [frame EXCEPT
                           ![1] = notify_subscribers(frame[1], frame[1].to_time, fails)]
    /\ lastCall' = [lastCall EXCEPT !.outcome = "returned"]
    /\ pc' = [pc EXCEPT ![1] = "clock"]
    /\ UNCHANGED calls
    /\ ClockUnchanged

\* reset(time): stop_auto, then the assignment and the notification
ClockReset ==
    /\ pc[1] = "clock"
    /\ calls < MaxCalls
    /\ calls' = calls + 1
    /\ \E time \in ClockTimes, fails \in BOOLEAN :
          /\ now' = time
          /\ frame' = [frame EXCEPT
                           ![1] = notify_subscribers(
                                      [frame[1] EXCEPT !.running = FALSE,
                                                       !.mode = "manual"],
                                      time, fails)]
          /\ lastCall' = ClockDigest("reset", "returned", time)
    /\ UNCHANGED pc
    /\ ClockUnchanged

\* start_auto(interval_seconds, delta): nothing when the clock is running
ClockStartAuto ==
    /\ pc[1] = "clock"
    /\ calls < MaxCalls
    /\ calls' = calls + 1
    /\ \E delta \in ClockDeltas :
          /\ lastCall' = ClockDigest("start_auto", "returned", delta)
          /\ IF frame[1].running
             THEN UNCHANGED <<pc, frame>>
             ELSE /\ frame' = [frame EXCEPT ![1].running = TRUE,
                                            ![1].mode = "auto",
                                            ![1].auto_delta = delta]
                  /\ pc' = [pc EXCEPT ![2] = "sleeping"]
    /\ UNCHANGED now
    /\ ClockUnchanged

\* stop_auto()
ClockStopAuto ==
    /\ pc[1] = "clock"
    /\ calls < MaxCalls
    /\ calls' = calls + 1
    /\ lastCall' = ClockDigest("stop_auto", "returned", 0)
    /\ frame' = [frame EXCEPT ![1].running = FALSE, ![1].mode = "manual"]
    /\ UNCHANGED <<now, pc>>
    /\ ClockUnchanged

\* subscribe(callback)
ClockSubscribe ==
    /\ pc[1] = "clock"
    /\ calls < MaxCalls
    /\ calls' = calls + 1
    /\ lastCall' = ClockDigest("subscribe", "returned", 0)
    /\ frame' = [frame EXCEPT ![1].subscribers = @ \cup {"callback"}]
    /\ UNCHANGED <<now, pc>>
    /\ ClockUnchanged

\* the auto-advance thread wakes up while the clock is running and ticks;
\* the ValueError of a delta <= 0 ends the thread
AutoTick ==
    /\ pc[2] = "sleeping"
    /\ frame[1].running
    /\ LET to_time == now + frame[1].auto_delta IN
       /\ to_time <= MaxClockTime
       /\ IF advance_rejects(to_time)
          THEN /\ pc' = [pc EXCEPT ![2] = "idle"]
               /\ UNCHANGED <<now, frame>>
          ELSE /\ \E fails \in BOOLEAN :
                     frame' = [frame EXCEPT
                                  ![1] = notify_subscribers(frame[1], to_time, fails)]
               /\ now' = to_time
               /\ UNCHANGED pc
    /\ UNCHANGED <<calls, lastCall>>
    /\ ClockUnchanged

\* the auto-advance thread wakes up after stop_auto and ends
AutoExit ==
    /\ pc[2] = "sleeping"
    /\ ~frame[1].running
    /\ pc' = [pc EXCEPT ![2] = "idle"]
    /\ UNCHANGED <<now, frame, calls, lastCall>>
    /\ ClockUnchanged

ClockNext ==
    \/ ClockAdvance
    \/ ClockTick
    \/ ClockAdvanceStore
    \/ ClockReset
    \/ ClockStartAuto
    \/ ClockStopAuto
    \/ ClockSubscribe
    \/ AutoTick
    \/ AutoExit

ClockSpec == ClockInit /\ [][ClockNext]_vars

(* --------------------------- request threads -------------------------- *)
(* The same handlers run by two request threads.  Nothing in the code      *)
(* locks the stock, the cache or the demand history, so a thread can be     *)
(* preempted between any two statements; the steps below cut buy and        *)
(* negotiate where another thread's writes can fall in between.             *)

\* the buy requests of the concurrent calls: one scarce ingredient
ConcBuyRequests ==
    [quote_id : {None} \cup IssuedIds,
     ingredient_id : {"espresso_beans"},
     quantity : Quantities,
     max_acceptable_price_per_unit : {NoNumber},
     business_id : BusinessIds]

\* the unit price the concurrent negotiate calls propose
ConcProposedPrices == {900}

\* thread t returns from its handler
Return(t, digest) ==
    /\ pc' = [pc EXCEPT ![t] = "idle"]
    /\ frame' = [frame EXCEPT ![t] = NoFrame]
    /\ lastCall' = digest

\* thread t moves on to the step at label
Goto(t, label) == pc' = [pc EXCEPT ![t] = label]

\* a failed order returned by thread t in the middle of buy
BuyFails(t, status, failure_reason) ==
    LET f == frame[t]
        r == buy_failure(f.req, use_by_date[f.req.ingredient_id], status,
                         failure_reason, quote_history, f.now)
    IN  /\ orders' = r.orders
        /\ created' = r.created
        /\ Return(t, BuyDigest(f.req, r))

\* buy, from its entry to the price ceiling check
BuyEnter(t) ==
    \E req \in ConcBuyRequests :
        /\ pc[t] = "idle"
        /\ calls < MaxCalls
        /\ calls' = calls + 1
        /\ LET e == buy_until_price(req)
               early == IF e.done THEN <<e.result>>
                        ELSE IF price_too_high(req, e.price_per_unit)
                        THEN <<buy_failure(req, use_by_date[req.ingredient_id],
                                           "FAILED_PRICE_TOO_HIGH",
                                           "Price > max acceptable",
                                           e.quote_history, now)>>
                        ELSE << >>
           IN  IF early # << >>
               THEN /\ quote_history' = early[1].quote_history
                    /\ orders' = early[1].orders
                    /\ created' = early[1].created
                    /\ Return(t, BuyDigest(req, early[1]))
               ELSE /\ quote_history' = e.quote_history
                    /\ Goto(t, "check_stock")
                    /\ frame' = [frame EXCEPT ![t] =
                                    [op |-> "buy", req |-> req,
                                     price_per_unit |-> e.price_per_unit,
                                     priced |-> e.priced,
                                     now |-> now, loaded |-> 0]]
                    /\ UNCHANGED <<orders, created, lastCall>>
        /\ UNCHANGED <<now, stock, quote_store, negotiated_quote_store,
                       issued, quoted>>

\* buy: available = get_stock(...) and the FAILED_NO_STOCK check
BuyCheckStock(t) ==
    /\ pc[t] = "check_stock"
    /\ IF get_stock(frame[t].req.ingredient_id) < frame[t].req.quantity
       THEN BuyFails(t, "FAILED_NO_STOCK", "Insufficient stock.")
       ELSE /\ Goto(t, "consume_check")
            /\ UNCHANGED <<orders, created, lastCall, frame>>
    /\ UNCHANGED <<now, stock, quote_store, negotiated_quote_store,
                   quote_history, issued, calls, quoted>>

\* consume_stock: the test "ing.stock < quantity"; on failure buy returns
\* FAILED_SYSTEM_ERROR
ConsumeCheck(t) ==
    /\ pc[t] = "consume_check"
    /\ IF stock[frame[t].req.ingredient_id] < frame[t].req.quantity
       THEN BuyFails(t, "FAILED_SYSTEM_ERROR",
                     "Race condition: stock consumption failed.")
       ELSE /\ Goto(t, "consume_load")
            /\ UNCHANGED <<orders, created, lastCall, frame>>
    /\ UNCHANGED <<now, stock, quote_store, negotiated_quote_store,
                   quote_history, issued, calls, quoted>>

\* consume_stock: "ing.stock -= quantity" reads ing.stock ...
ConsumeLoad(t) ==
    /\ pc[t] = "consume_load"
    /\ frame' = [frame EXCEPT ![t].loaded = stock[frame[t].req.ingredient_id]]
    /\ Goto(t, "consume_store")
    /\ UNCHANGED <<now, stock, quote_store, negotiated_quote_store,
                   quote_history, orders, issued, created, calls, lastCall,
                   quoted>>

\* ... and writes the difference back
ConsumeStore(t) ==
    /\ pc[t] = "consume_store"
    /\ stock' = [stock EXCEPT ![frame[t].req.ingredient_id] =
                     frame[t].loaded - frame[t].req.quantity]
    /\ Goto(t, "confirm")
    /\ UNCHANGED <<now, quote_store, negotiated_quote_store, quote_history,
                   orders, issued, created, calls, lastCall, quoted, frame>>

\* buy: the order item, the eviction of the quote id and the CONFIRMED order
BuyConfirm(t) ==
    /\ pc[t] = "confirm"
    /\ LET f == frame[t]
           r == buy_confirm(f.req, f.price_per_unit, f.priced, quote_history,
                            stock, f.now)
       IN  /\ quote_store' = r.quote_store
           /\ negotiated_quote_store' = r.negotiated_quote_store
           /\ orders' = r.orders
           /\ created' = r.created
           /\ Return(t, BuyDigest(f.req, r))
    /\ UNCHANGED <<now, stock, quote_history, issued, calls, quoted>>

\* negotiate: the three precondition checks
NegotiateEnter(t) ==
    \E quote_id \in IssuedIds, proposed_price \in ConcProposedPrices :
        /\ pc[t] = "idle"
        /\ calls < MaxCalls
        /\ calls' = calls + 1
        /\ LET pre == negotiate_precondition(quote_id, proposed_price) IN
           IF pre # "OK"
           THEN Return(t, NegotiateDigest(quote_id, "raised", pre))
           ELSE /\ Goto(t, "oracle")
                /\ frame' = [frame EXCEPT ![t] =
                                [op |-> "negotiate", quote_id |-> quote_id,
                                 proposed_price |-> proposed_price,
                                 original_quote |-> quote_store[quote_id].quote,
                                 now |-> now]]
                /\ UNCHANGED lastCall
        /\ UNCHANGED <<now, stock, quote_store, negotiated_quote_store,
                       quote_history, orders, issued, created, quoted>>

\* negotiate: the oracle call comes back (or fails) and negotiate_price
\* builds the response
NegotiateOracle(t) ==
    \E oracle \in OracleAnswers :
        /\ pc[t] = "oracle"
        /\ frame' = [frame EXCEPT ![t] =
                        [op |-> "negotiate", quote_id |-> frame[t].quote_id,
                         proposed_price |-> frame[t].proposed_price,
                         original_quote |-> frame[t].original_quote,
                         now |-> frame[t].now,
                         result |-> negotiate_price(frame[t].proposed_price,
                                                    frame[t].original_quote,
                                                    oracle)]]
        /\ Goto(t, "replace")
        /\ UNCHANGED <<now, stock, quote_store, negotiated_quote_store,
                       quote_history, orders, issued, created, calls, lastCall,
                       quoted>>

\* negotiate: the accepted quote replaces the entry of its id
NegotiateReplace(t) ==
    /\ pc[t] = "replace"
    /\ LET f == frame[t]
           after == apply_negotiation(f.quote_id, f.original_quote, f.result,
                                      f.now)
       IN  /\ quote_store' = after.quote_store
           /\ negotiated_quote_store' = after.negotiated_quote_store
           /\ Return(t, NegotiateDigest(f.quote_id, "returned", f.result))
    /\ UNCHANGED <<now, stock, quote_history, orders, issued, created, calls,
                   quoted>>

ConcNext ==
    \/ GetQuote
    \/ Advance
    \/ \E t \in Threads : BuyEnter(t)
    \/ \E t \in Threads : BuyCheckStock(t)
    \/ \E t \in Threads : ConsumeCheck(t)
    \/ \E t \in Threads : ConsumeLoad(t)
    \/ \E t \in Threads : ConsumeStore(t)
    \/ \E t \in Threads : BuyConfirm(t)
    \/ \E t \in Threads : NegotiateEnter(t)
    \/ \E t \in Threads : NegotiateOracle(t)
    \/ \E t \in Threads : NegotiateReplace(t)

\* get_quote and the clock as before, buy and negotiate on two threads
ConcSpec == Init /\ [][ConcNext]_vars

(* ----------------------- concurrent price lookups --------------------- *)
(* DemandBasedPricingService.get_price run by two request threads at one    *)
(* clock time.  _clean_old_quotes builds the pruned list and then assigns   *)
(* it; record_quote tests for the ingredient's list, creates it and         *)
(* appends.  A list that was never created is the empty history.  In this   *)
(* specification quoted counts, per ingredient, the lookups that returned.  *)

\* the lookups for ingredient_id that have returned
Completed(ingredient_id) ==
    IF ingredient_id \in DOMAIN quoted THEN quoted[ingredient_id] ELSE 0

\* what a step of a lookup leaves alone
PriceUnchanged ==
    UNCHANGED <<now, stock, quote_store, negotiated_quote_store, orders,
                issued, created>>

\* get_price up to the list _clean_old_quotes has built; nothing is built
\* when the ingredient has no list
PriceEnter(t) ==
    \E ingredient_id \in Ingredients, quantity \in Quantities :
        /\ pc[t] = "idle"
        /\ calls < MaxCalls
        /\ calls' = calls + 1
        /\ frame' = [frame EXCEPT
                         ![t] = [op |-> "get_price",
                                 ingredient_id |-> ingredient_id,
                                 quantity |-> quantity,
                                 kept |-> clean_old_quotes(quote_history[ingredient_id])]]
        /\ Goto(t, IF quote_history[ingredient_id] = << >>
                   THEN "record" ELSE "clean_store")
        /\ UNCHANGED <<quote_history, lastCall, quoted>>
        /\ PriceUnchanged

\* _clean_old_quotes assigns the list it built
PriceCleanStore(t) ==
    /\ pc[t] = "clean_store"
    /\ quote_history' = [quote_history EXCEPT ![frame[t].ingredient_id] = frame[t].kept]
    /\ Goto(t, "record")
    /\ UNCHANGED <<calls, lastCall, quoted, frame>>
    /\ PriceUnchanged

\* record_quote: the test for the ingredient's list, and the append when
\* there is one
PriceRecord(t) ==
    /\ pc[t] = "record"
    /\ IF quote_history[frame[t].ingredient_id] = << >>
       THEN /\ Goto(t, "record_new")
            /\ UNCHANGED quote_history
       ELSE /\ quote_history' = [quote_history EXCEPT
                                    ![frame[t].ingredient_id] = record_quote(@)]
            /\ Goto(t, "count")
    /\ UNCHANGED <<calls, lastCall, quoted, frame>>
    /\ PriceUnchanged

\* record_quote: the new list is assigned and the time appended to it
PriceRecordNew(t) ==
    /\ pc[t] = "record_new"
    /\ quote_history' = [quote_history EXCEPT
                             ![frame[t].ingredient_id] = record_quote(<< >>)]
    /\ Goto(t, "count")
    /\ UNCHANGED <<calls, lastCall, quoted, frame>>
    /\ PriceUnchanged

\* get_price counts the list and returns the price; status is the
\* ingredient and total_cost the count
PriceCount(t) ==
    /\ pc[t] = "count"
    /\ LET f == frame[t]
           recent_quotes == Len(quote_history[f.ingredient_id])
           price == demand_adjusted(f.ingredient_id,
                        volume_price(f.ingredient_id, f.quantity).price_per_unit,
                        recent_quotes)
       IN  /\ Return(t, Digest("get_price", "returned", f.ingredient_id, None,
                               "fresh", price,
                               [NoCost EXCEPT !.total_cost = recent_quotes]))
           /\ quoted' = Put(quoted, f.ingredient_id, Completed(f.ingredient_id) + 1)
    /\ UNCHANGED <<calls, quote_history>>
    /\ PriceUnchanged

PriceNext ==
    \/ \E t \in Threads : PriceEnter(t)
    \/ \E t \in Threads : PriceCleanStore(t)
    \/ \E t \in Threads : PriceRecord(t)
    \/ \E t \in Threads : PriceRecordNew(t)
    \/ \E t \in Threads : PriceCount(t)

PriceSpec == Init /\ [][PriceNext]_vars

(* ------------------------- buying after expiry ------------------------ *)
(* Sequential get_quote, buy and clock advances, started in the state that  *)
(* get_quote("espresso_beans", 2) leaves at time 0.  In this specification  *)
(* the frame of thread 1 is a history: the pairs of quote id and ingredient *)
(* for which a buy has returned QUOTE_EXPIRED.                              *)

\* the state after the first get_quote
ReuseInit ==
    /\ now = 0
    /\ stock = [i \in Ingredients |-> InitStock]
    /\ quote_store =
          Put(EmptyDict, QuoteIdPool[1],
              [quote |-> [quote_id |-> QuoteIdPool[1],
                          ingredient_id |-> "espresso_beans",
                          price_per_unit |-> base_price["espresso_beans"],
                          total_price |-> base_price["espresso_beans"] * 2,
                          available_stock |-> InitStock,
                          use_by_date |-> use_by_date["espresso_beans"],
                          price_valid_until |-> ONE_DAY,
                          delivery_time |-> ONE_DAY],
               expires_at |-> ONE_DAY])
    /\ negotiated_quote_store = EmptyDict
    /\ quote_history = [i \in Ingredients |->
                           IF i = "espresso_beans" THEN <<0>> ELSE << >>]
    /\ orders = EmptyDict
    /\ issued = 1
    /\ created = 0
    /\ calls = 0
    /\ lastCall = Digest("get_quote", "returned", "OK", QuoteIdPool[1], "fresh",
                         base_price["espresso_beans"], NoCost)
    /\ quoted = Put(EmptyDict, QuoteIdPool[1], base_price["espresso_beans"])
    /\ pc = [t \in Threads |-> "idle"]
    /\ frame = [t \in Threads |->
                   IF t = 1 THEN [op |-> "history", expired |-> {}] ELSE NoFrame]

\* the call buy(req), and the history of the ids reported as expired
ReuseBuyCall(req) ==
    LET r == buy(req) IN
        /\ calls < MaxCalls
        /\ stock' = r.stock
        /\ quote_store' = r.quote_store
        /\ negotiated_quote_store' = r.negotiated_quote_store
        /\ quote_history' = r.quote_history
        /\ orders' = r.orders
        /\ created' = r.created
        /\ lastCall' = BuyDigest(req, r)
        /\ calls' = calls + 1
        /\ frame' = IF /\ lastCall'.outcome = "returned"
                       /\ lastCall'.status = "FAILED_INVALID_QUOTE:QUOTE_EXPIRED"
                    THEN [frame EXCEPT ![1].expired =
                              @ \cup {<<req.quote_id, req.ingredient_id>>}]
                    ELSE frame
        /\ UNCHANGED <<now, issued, quoted, pc>>

ReuseBuy == \E req \in BuyRequests : ReuseBuyCall(req)

ReuseNext == OrderGetQuote \/ ReuseBuy \/ Advance

ReuseSpec == ReuseInit /\ [][ReuseNext]_vars

(* ------------------------------ the sweep ----------------------------- *)
(* EngineFacade._cleanup_quote_store on its own: it is applied once to a    *)
(* cache in which each quote id of the pool is absent, unnegotiated or      *)
(* negotiated and expires before, at or after the time of the sweep.        *)

SweepInit ==
    /\ now \in {ONE_DAY, ONE_DAY + 1}
    /\ stock = [i \in Ingredients |-> InitStock]
    /\ \E place \in [{QuoteIdPool[1], QuoteIdPool[2]} ->
                          {"absent", "unnegotiated", "negotiated"}],
          expiry \in [{QuoteIdPool[1], QuoteIdPool[2]} ->
                          {ONE_DAY, ONE_DAY + 1, ONE_DAY + 2}] :
          LET quote(q, price) ==
                  [quote_id |-> q,
                   ingredient_id |-> "espresso_beans",
                   price_per_unit |-> price,
                   total_price |-> price * 2,
                   available_stock |-> InitStock,
                   use_by_date |-> use_by_date["espresso_beans"],
                   price_valid_until |-> expiry[q],
                   delivery_time |-> ONE_DAY]
          IN  /\ quote_store =
                    [q \in {x \in DOMAIN place : place[x] = "unnegotiated"} |->
                        [quote |-> quote(q, base_price["espresso_beans"]),
                         expires_at |-> expiry[q]]]
              /\ negotiated_quote_store =
                    [q \in {x \in DOMAIN place : place[x] = "negotiated"} |->
                        [quote |-> quote(q, 900),
                         expires_at |-> expiry[q],
                         negotiated_at |-> expiry[q] - ONE_DAY,
                         original_price |-> base_price["espresso_beans"],
                         negotiated_price |-> 900]]
    /\ quote_history = [i \in Ingredients |-> << >>]
    /\ orders = EmptyDict
    /\ issued = 2
    /\ created = 0
    /\ calls = 0
    /\ lastCall = Digest("none", "none", "none", None, "none", 0, NoCost)
    /\ quoted = EmptyDict
    /\ pc = [t \in Threads |-> "idle"]
    /\ frame = [t \in Threads |-> NoFrame]

\* the sweep of both partitions; price is the number of entries it removed
SweepStep ==
    /\ calls = 0
    /\ calls' = 1
    /\ quote_store' = without_expired(quote_store)
    /\ negotiated_quote_store' = without_expired(negotiated_quote_store)
    /\ lastCall' = Digest("cleanup", "returned", "OK", None, "none",
                          Cardinality(DOMAIN quote_store)
                              + Cardinality(DOMAIN negotiated_quote_store)
                              - Cardinality(DOMAIN without_expired(quote_store))
                              - Cardinality(DOMAIN without_expired(negotiated_quote_store)),
                          NoCost)
    /\ UNCHANGED <<now, stock, quote_history, orders, issued, created, quoted,
                   pc, frame>>

SweepSpec == SweepInit /\ [][SweepStep]_vars

(* ---------------------- negotiating by the fallback ------------------- *)
(* get_quote for espresso beans, clock advances and negotiate with the      *)
(* oracle call failing, so that _fallback_negotiation decides.  The calls   *)
(* start at time 0 with no lookup made yet, or with two espresso lookups    *)
(* made (two get_quote calls for more than the stock, which record their    *)
(* lookup and raise), so that the next quotes carry a demand hike.          *)

HaggleInit ==
    /\ now = 0
    /\ stock = [i \in Ingredients |-> InitStock]
    /\ quote_store = EmptyDict
    /\ negotiated_quote_store = EmptyDict
    /\ \E lookups \in {<< >>, <<0, 0>>} :
          quote_history = [i \in Ingredients |->
                              IF i = "espresso_beans" THEN lookups ELSE << >>]
    /\ orders = EmptyDict
    /\ issued = 0
    /\ created = 0
    /\ calls = 0
    /\ lastCall = Digest("none", "none", "none", None, "none", 0, NoCost)
    /\ quoted = EmptyDict
    /\ pc = [t \in Threads |-> "idle"]
    /\ frame = [t \in Threads |-> NoFrame]

\* a call of negotiate whose oracle call fails
HaggleNegotiate ==
    \E quote_id \in IssuedIds, proposed_price \in {1100, 1300} :
        NegotiateCall(quote_id, proposed_price,
                      [failed |-> TRUE, final_price_per_unit |-> 0,
                       accepted |-> FALSE])

HaggleNext == OrderGetQuote \/ HaggleNegotiate \/ Advance

HaggleSpec == HaggleInit /\ [][HaggleNext]_vars

(* ------------------------------ properties ---------------------------- *)
\* the statuses an order can carry
OrderStatuses ==
    {"CONFIRMED", "FAILED_INVALID_REQUEST", "FAILED_INVALID_ITEM",
     "FAILED_INVALID_QUOTE:INGREDIENT_MISMATCH",
     "FAILED_INVALID_QUOTE:QUOTE_EXPIRED", "FAILED_PRICE_TOO_HIGH",
     "FAILED_NO_STOCK", "FAILED_SYSTEM_ERROR"}

\* the saved (CONFIRMED) orders that reference quote id q
OrdersFor(q) == {o \in DOMAIN orders : orders[o].quote_id = q}

\* this step is the call buy(req)
IsBuy(req) ==
    /\ calls' = calls + 1
    /\ lastCall'.op = "buy"
    /\ lastCall'.quote_id = req.quote_id
    /\ BuyCall(req)

\* C1: after any sequence of get_quote, negotiate, buy and clock advances the
\* stock of every catalog ingredient is >= 0.
C1_StockNonNegative == \A i \in Ingredients : stock[i] >= 0

\* C1 witness: confirmed buys have used up the whole stock of an ingredient
C1_Witness ==
    /\ lastCall.op = "buy" /\ lastCall.status = "CONFIRMED"
    /\ \E i \in Ingredients : stock[i] = 0

\* C3 as stated: at most one CONFIRMED order ever references an issued quote
\* id (a later buy referencing a consumed id is never CONFIRMED).
C3_QuoteFundsOneOrder == \A q \in IssuedIds : Cardinality(OrdersFor(q)) <= 1

\* C3 amended: the cached price of a quote id funds a successful buy at most
\* once.  Once a CONFIRMED order references the id, the id is in neither
\* partition, and a CONFIRMED buy priced from the cache is the first CONFIRMED
\* order of its id: every later buy referencing the id is priced by a fresh
\* lookup, like a buy whose id was never issued.
C3_CachedPriceFundsOnce ==
    \A q \in IssuedIds :
        /\ OrdersFor(q) # {} =>
               q \notin DOMAIN quote_store \cup DOMAIN negotiated_quote_store
        /\ (/\ lastCall.op = "buy" /\ lastCall.quote_id = q
            /\ lastCall.status = "CONFIRMED" /\ lastCall.priced = "cache")
               => Cardinality(OrdersFor(q)) = 1

\* C3 witness: a second buy referencing a consumed quote id was CONFIRMED at
\* a fresh price
C3_Witness ==
    \E q \in IssuedIds :
        /\ Cardinality(OrdersFor(q)) = 2
        /\ lastCall.op = "buy" /\ lastCall.quote_id = q
        /\ lastCall.status = "CONFIRMED" /\ lastCall.priced = "fresh"

\* C4: every buy call returns one order whose status is one of the
\* enumerated statuses; it never raises.
C4_BuyIsTotal ==
    lastCall.op = "buy" =>
        lastCall.outcome = "returned" /\ lastCall.status \in OrderStatuses

\* C5: a buy request with neither a quote id nor an ingredient id returns an
\* order with status FAILED_INVALID_REQUEST and total cost 0, and changes
\* neither the stock nor the quote cache.
C5_NeitherIdIsInvalidRequest ==
    [][\A req \in BuyRequests :
          (req.quote_id = None /\ req.ingredient_id = None /\ IsBuy(req)) =>
              /\ buy(req).outcome = "returned"
              /\ buy(req).value.status = "FAILED_INVALID_REQUEST"
              /\ buy(req).value.total_cost = 0
              /\ stock' = stock
              /\ quote_store' = quote_store
              /\ negotiated_quote_store' = negotiated_quote_store]_vars

\* C6: every order a buy call returns with a status other than CONFIRMED has
\* total cost 0, unit price paid 0 and a failure reason; every CONFIRMED
\* order has a total cost equal to the total price of its item.
C6_OrderCost ==
    (lastCall.op = "buy" /\ lastCall.outcome = "returned") =>
        /\ lastCall.status # "CONFIRMED" =>
               /\ lastCall.total_cost = 0
               /\ lastCall.price = 0
               /\ lastCall.failure_reason # None
        /\ lastCall.status = "CONFIRMED" =>
               lastCall.total_cost = lastCall.item_total_price

\* C6 witness: a CONFIRMED order with a positive cost has been saved and the
\* latest buy returned a failed order
C6_Witness ==
    /\ \E o \in DOMAIN orders : orders[o].total_cost > 0
    /\ lastCall.op = "buy" /\ lastCall.outcome = "returned"
    /\ lastCall.status = "FAILED_NO_STOCK"

\* C7: a buy call that returns an order with a status other than CONFIRMED
\* leaves the stock of every ingredient as it was.
C7_FailedBuyKeepsStock ==
    [][(/\ calls' = calls + 1
        /\ lastCall'.op = "buy" /\ lastCall'.outcome = "returned"
        /\ lastCall'.status # "CONFIRMED") => stock' = stock]_vars

\* C7 witness: a buy failed on the price ceiling while there was stock
C7_Witness ==
    /\ lastCall.op = "buy" /\ lastCall.status = "FAILED_PRICE_TOO_HIGH"
    /\ \A i \in Ingredients : stock[i] = InitStock

C9_OnePartition ==
    DOMAIN quote_store \cap DOMAIN negotiated_quote_store = {}

\* C9 witness: a negotiation has moved a quote id to the negotiated partition
C9_Witness ==
    /\ lastCall.op = "negotiate" /\ lastCall.status = "ACCEPTED"
    /\ lastCall.quote_id \in DOMAIN negotiated_quote_store

\* this step is the call negotiate(quote_id, proposed_price) answered by oracle
IsNegotiate(quote_id, proposed_price, oracle) ==
    /\ calls' = calls + 1
    /\ lastCall'.op = "negotiate"
    /\ lastCall'.quote_id = quote_id
    /\ NegotiateCall(quote_id, proposed_price, oracle)

\* C11: negotiate reports the first precondition that fails, in the order
\* not found, expired, offer not below the quoted price; when one fails the
\* oracle is not consulted, no order is created and the stock and both
\* partitions are unchanged; when none fails the call returns.
C11_NegotiatePreconditions ==
    [][\A quote_id \in NegotiateIds, proposed_price \in ProposedPrices,
          oracle \in OracleAnswers :
          IsNegotiate(quote_id, proposed_price, oracle) =>
              LET first_failing ==
                      IF quote_id \notin DOMAIN quote_store
                      THEN "Quote not found."
                      ELSE IF now >= quote_store[quote_id].expires_at
                      THEN "Quote has expired."
                      ELSE IF proposed_price
                                >= quote_store[quote_id].quote.price_per_unit
                      THEN "You are trying to ask for a higher price per unit ?!"
                      ELSE "OK"
              IN  IF first_failing = "OK"
                  THEN lastCall'.outcome = "returned"
                  ELSE /\ lastCall'.outcome = "raised"
                       /\ lastCall'.status = first_failing
                       /\ ~negotiate(quote_id, proposed_price, oracle).oracle_called
                       /\ orders' = orders /\ created' = created
                       /\ stock' = stock
                       /\ quote_store' = quote_store
                       /\ negotiated_quote_store' = negotiated_quote_store]_vars

\* C11 witness: a negotiate on an expired, still cached quote raised the
\* expired error
C11_Witness ==
    /\ lastCall.op = "negotiate" /\ lastCall.outcome = "raised"
    /\ lastCall.status = "Quote has expired."
    /\ lastCall.quote_id \in DOMAIN quote_store

\* C12: when a negotiate call resolves to a final price strictly below the
\* quoted unit price, the id leaves the unnegotiated partition and is in the
\* negotiated one with the same quote id, ingredient and expires_at and the
\* final price as unit price; a later buy CONFIRMED with that id pays it.
C12_LowerPriceReplacesQuote ==
    [][LET q == lastCall'.quote_id IN
       /\ (/\ calls' = calls + 1
           /\ lastCall'.op = "negotiate" /\ lastCall'.outcome = "returned"
           /\ lastCall'.price < quote_store[q].quote.price_per_unit)
          => /\ q \notin DOMAIN quote_store'
             /\ q \in DOMAIN negotiated_quote_store'
             /\ negotiated_quote_store'[q].quote.quote_id = q
             /\ negotiated_quote_store'[q].quote.ingredient_id
                    = quote_store[q].quote.ingredient_id
             /\ negotiated_quote_store'[q].expires_at = quote_store[q].expires_at
             /\ negotiated_quote_store'[q].quote.price_per_unit = lastCall'.price
       /\ (/\ calls' = calls + 1
           /\ lastCall'.op = "buy" /\ lastCall'.status = "CONFIRMED"
           /\ q \in DOMAIN negotiated_quote_store)
          => lastCall'.price = negotiated_quote_store[q].quote.price_per_unit
      ]_vars

\* C12 witness: a negotiate has just resolved below the quoted price and the
\* id is cached at the final price
C12_Witness ==
    /\ lastCall.op = "negotiate" /\ lastCall.outcome = "returned"
    /\ lastCall.quote_id \in DOMAIN negotiated_quote_store
    /\ lastCall.quote_id \notin DOMAIN quote_store
    /\ lastCall.price < quoted[lastCall.quote_id]
    /\ negotiated_quote_store[lastCall.quote_id].quote.price_per_unit
           = lastCall.price

\* the answer the oracle (or the fallback) gives to this negotiate call
Answer(quote_id, proposed_price, oracle) ==
    call_llm_service(quote_store[quote_id].quote, proposed_price, oracle)

\* a negotiate call that left the entry of quote_id as it was and answered
\* not accepted
LeftUntouched(quote_id) ==
    /\ quote_id \in DOMAIN quote_store'
    /\ quote_store'[quote_id] = quote_store[quote_id]
    /\ quote_id \notin DOMAIN negotiated_quote_store'
    /\ lastCall'.status = "REJECTED"

\* a buy CONFIRMED with an id of the unnegotiated partition pays the unit
\* price the id was issued at
BuyPaysQuotedPrice ==
    (/\ calls' = calls + 1
     /\ lastCall'.op = "buy" /\ lastCall'.status = "CONFIRMED"
     /\ lastCall'.quote_id \in DOMAIN quote_store)
        => lastCall'.price = quoted[lastCall'.quote_id]

\* C13 as stated: when the oracle or the fallback answers accepted = false,
\* whatever final price it reports, the unnegotiated entry is unchanged, no
\* negotiated entry exists for the id, the response is marked not accepted,
\* and a later buy with the id pays the original unit price.
C13_RejectionLeavesQuote ==
    [][/\ \A quote_id \in NegotiateIds, proposed_price \in ProposedPrices,
             oracle \in OracleAnswers :
             (/\ IsNegotiate(quote_id, proposed_price, oracle)
              /\ lastCall'.outcome = "returned"
              /\ ~Answer(quote_id, proposed_price, oracle).accepted)
                 => LeftUntouched(quote_id)
       /\ BuyPaysQuotedPrice]_vars

\* C13 amended: when the oracle or the fallback answers accepted = false
\* with a final price that is not below the quoted unit price, the
\* unnegotiated entry is unchanged, no negotiated entry exists for the id,
\* the response is marked not accepted, and a later buy with the id pays the
\* original unit price.  (A rejection that reports a lower final price is
\* taken as a counter-offer and accepted.)
C13_RejectionAtQuotedPriceLeavesQuote ==
    [][/\ \A quote_id \in NegotiateIds, proposed_price \in ProposedPrices,
             oracle \in OracleAnswers :
             (/\ IsNegotiate(quote_id, proposed_price, oracle)
              /\ lastCall'.outcome = "returned"
              /\ ~Answer(quote_id, proposed_price, oracle).accepted
              /\ Answer(quote_id, proposed_price, oracle).final_price_per_unit
                     >= quote_store[quote_id].quote.price_per_unit)
                 => LeftUntouched(quote_id)
       /\ BuyPaysQuotedPrice]_vars

\* C13 witness: a negotiate was answered not accepted at the quoted price
\* and the id is still in the unnegotiated partition at that price
C13_Witness ==
    /\ lastCall.op = "negotiate" /\ lastCall.status = "REJECTED"
    /\ lastCall.quote_id \in DOMAIN quote_store
    /\ lastCall.quote_id \notin DOMAIN negotiated_quote_store
    /\ lastCall.price >= quoted[lastCall.quote_id]
    /\ quote_store[lastCall.quote_id].quote.price_per_unit
           = quoted[lastCall.quote_id]

(* --------------------------- the fallback rule ------------------------ *)
\* _fallback_negotiation applied by thread 1 to one context drawn from the
\* input sets
FallbackInit ==
    /\ now = 0
    /\ stock = [i \in Ingredients |-> InitStock]
    /\ quote_store = EmptyDict
    /\ negotiated_quote_store = EmptyDict
    /\ quote_history = [i \in Ingredients |-> << >>]
    /\ orders = EmptyDict
    /\ issued = 0
    /\ created = 0
    /\ calls = 0
    /\ lastCall = Digest("none", "none", "none", None, "none", 0, NoCost)
    /\ quoted = EmptyDict
    /\ pc = [t \in Threads |-> IF t = 1 THEN "fallback" ELSE "idle"]
    /\ \E current_price \in FallbackCurrentPrices,
          proposed_price \in FallbackProposedPrices,
          base \in FallbackBasePrices :
          frame = [t \in Threads |->
                      IF t = 1
                      THEN [op |-> "fallback", current_price |-> current_price,
                            proposed_price |-> proposed_price, base |-> base]
                      ELSE NoFrame]

\* the fallback decides on the context of thread 1
FallbackStep ==
    /\ pc[1] = "fallback"
    /\ LET f == frame[1]
           r == fallback_negotiation(f.current_price, f.proposed_price, f.base)
       IN  lastCall' = Digest("fallback", "returned",
                              IF r.accepted THEN "ACCEPTED" ELSE "REJECTED",
                              None, "none", r.final_price_per_unit, NoCost)
    /\ pc' = [pc EXCEPT ![1] = "idle"]
    /\ UNCHANGED <<now, stock, quote_store, negotiated_quote_store,
                   quote_history, orders, issued, created, calls, quoted, frame>>

FallbackSpec == FallbackInit /\ [][FallbackStep]_vars

\* C14: the fallback accepts proposed price p against current price c and
\* base price b exactly when p >= b and |p - c| / c <= 0.10, answering final
\* price p and accepted; in every other case it answers final price c and
\* not accepted.
C14_FallbackRule ==
    lastCall.op = "fallback" =>
        LET p == frame[1].proposed_price
            c == frame[1].current_price
            b == frame[1].base
            diff == IF p >= c THEN p - c ELSE c - p
        IN  IF p >= b /\ 10 * diff <= c
            THEN lastCall.status = "ACCEPTED" /\ lastCall.price = p
            ELSE lastCall.status = "REJECTED" /\ lastCall.price = c

\* this step is the call get_quote(ingredient_id, quantity)
IsGetQuote(ingredient_id, quantity) ==
    /\ calls' = calls + 1
    /\ lastCall'.op = "get_quote"
    /\ GetQuoteCall(ingredient_id, quantity)

\* C16: a successful get_quote(ingredient, quantity) adds exactly one entry,
\* to the unnegotiated partition, under an id never used before, with the
\* unit price of the pricing engine and expires_at = now + 24; the stock was
\* >= quantity and the stock of every ingredient is unchanged.
C16_QuoteInsertsOneEntry ==
    [][\A ingredient_id \in RequestIngredients, quantity \in Quantities :
          (IsGetQuote(ingredient_id, quantity) /\ lastCall'.outcome = "returned")
              => LET q == lastCall'.quote_id IN
                 /\ q \notin IssuedIds
                 /\ q \notin DOMAIN quote_store \cup DOMAIN negotiated_quote_store
                 /\ DOMAIN quote_store' \ DOMAIN quote_store = {q}
                 /\ DOMAIN negotiated_quote_store'
                        \subseteq DOMAIN negotiated_quote_store
                 /\ quote_store'[q].quote.quote_id = q
                 /\ quote_store'[q].quote.ingredient_id = ingredient_id
                 /\ quote_store'[q].quote.price_per_unit
                        = get_price(ingredient_id, quantity).price_per_unit
                 /\ quote_store'[q].expires_at = now + 24
                 /\ stock[ingredient_id] >= quantity
                 /\ stock' = stock]_vars

\* C16 witness: a second quote was issued while the first is still cached
C16_Witness ==
    /\ lastCall.op = "get_quote" /\ lastCall.outcome = "returned"
    /\ Cardinality(DOMAIN quote_store) = 2
    /\ quote_store[lastCall.quote_id].expires_at = now + 24

\* C17: get_quote fails with not-found for an ingredient outside the
\* catalog, with pricing-failure when the pricing engine has no price, and
\* with insufficient-stock when the quantity is above the stock; a failed
\* get_quote adds no cache entry, creates no order and leaves the stock.
C17_QuoteFailures ==
    [][\A ingredient_id \in RequestIngredients, quantity \in Quantities :
          IsGetQuote(ingredient_id, quantity) =>
              LET failure ==
                      IF ingredient_id \notin Ingredients
                      THEN "Ingredient not found"
                      ELSE IF ~get_price(ingredient_id, quantity).ok
                      THEN "Pricing failed"
                      ELSE IF quantity > stock[ingredient_id]
                      THEN "Insufficient stock"
                      ELSE "none"
              IN  IF failure = "none"
                  THEN lastCall'.outcome = "returned"
                  ELSE /\ lastCall'.outcome = "raised"
                       /\ lastCall'.status = failure
                       /\ quote_store' = quote_store
                       /\ negotiated_quote_store' = negotiated_quote_store
                       /\ issued' = issued
                       /\ orders' = orders /\ created' = created
                       /\ stock' = stock]_vars

\* C17 witness: get_quote failed on the stock while a quote is cached
C17_Witness ==
    /\ lastCall.op = "get_quote" /\ lastCall.outcome = "raised"
    /\ lastCall.status = "Insufficient stock"
    /\ quote_store # EmptyDict

\* a buy of a cached quote id with the quoted ingredient returns
\* INVALID_QUOTE:QUOTE_EXPIRED exactly when now >= expires_at, and then
\* with the stock unchanged and total cost 0
BuyExpiry ==
    \A req \in BuyRequests :
        (IsBuy(req) /\ cached_entry(req.quote_id) # << >>) =>
            LET entry == cached_entry(req.quote_id)[1]
                expired == lastCall'.status = "FAILED_INVALID_QUOTE:QUOTE_EXPIRED"
            IN  /\ expired => now >= entry.expires_at
                /\ (/\ req.ingredient_id = entry.quote.ingredient_id
                    /\ now >= entry.expires_at)
                       => /\ lastCall'.outcome = "returned"
                          /\ expired
                          /\ lastCall'.total_cost = 0
                          /\ stock' = stock

\* a negotiate on an id of partition store raises the expired error exactly
\* when now >= expires_at
NegotiateExpiry(store) ==
    \A quote_id \in NegotiateIds, proposed_price \in ProposedPrices,
       oracle \in OracleAnswers :
        (/\ IsNegotiate(quote_id, proposed_price, oracle)
         /\ quote_id \in DOMAIN store)
            => ((now >= store[quote_id].expires_at)
                    <=> (/\ lastCall'.outcome = "raised"
                         /\ lastCall'.status = "Quote has expired."))

\* C18 as stated: a cached quote, unnegotiated or negotiated, is expired
\* from now = expires_at on: a buy referencing it with the quoted ingredient
\* returns INVALID_QUOTE:QUOTE_EXPIRED with the stock unchanged and total
\* cost 0, and a negotiate on it raises the expired error; before that
\* neither happens.
C18_ExpiryBoundary ==
    [][/\ BuyExpiry
       /\ NegotiateExpiry(quote_store)
       /\ NegotiateExpiry(negotiated_quote_store)]_vars

\* C18 amended: as stated for buy, in either partition; a negotiate raises
\* the expired error exactly when the id is in the unnegotiated partition
\* and now >= expires_at (on an id of the negotiated partition, expired or
\* not, negotiate raises the not-found error).
C18_ExpiryBoundaryUnnegotiated ==
    [][/\ BuyExpiry
       /\ NegotiateExpiry(quote_store)
       /\ \A quote_id \in NegotiateIds, proposed_price \in ProposedPrices,
             oracle \in OracleAnswers :
             (/\ IsNegotiate(quote_id, proposed_price, oracle)
              /\ quote_id \in DOMAIN negotiated_quote_store
              /\ quote_id \notin DOMAIN quote_store)
                 => /\ lastCall'.outcome = "raised"
                    /\ lastCall'.status = "Quote not found."]_vars

\* C18 witness: a buy with a negotiated quote id was refused as expired at
\* the very time the quote expires
C18_Witness ==
    /\ lastCall.op = "buy"
    /\ lastCall.status = "FAILED_INVALID_QUOTE:QUOTE_EXPIRED"
    /\ lastCall.quote_id \in DOMAIN negotiated_quote_store
    /\ negotiated_quote_store[lastCall.quote_id].expires_at = now

\* C19: a buy whose quote id is in neither partition is priced by the
\* pricing engine, which records one demand entry for the ingredient, and
\* ends as the same buy without a quote id would: same status, same unit
\* price, same stock and demand history.
C19_AbsentQuoteIdPricedFresh ==
    [][(/\ calls' = calls + 1
        /\ lastCall'.op = "buy"
        /\ lastCall'.quote_id # None
        /\ cached_entry(lastCall'.quote_id) = << >>)
          => \A req \in BuyRequests :
                 (/\ req.quote_id = lastCall'.quote_id
                  /\ req.ingredient_id \in Ingredients
                  /\ BuyCall(req))
                     => LET without_id == buy([req EXCEPT !.quote_id = None])
                            i == req.ingredient_id
                        IN  /\ lastCall'.outcome = "returned"
                            /\ lastCall'.status = without_id.value.status
                            /\ lastCall'.status
                                   # "FAILED_INVALID_QUOTE:NOT_FOUND"
                            /\ lastCall'.price
                                   = without_id.value.items[i].price_per_unit_paid
                            /\ lastCall'.total_cost = without_id.value.total_cost
                            /\ stock' = without_id.stock
                            /\ quote_history' = without_id.quote_history
                            /\ quote_history'[i]
                                   = Append(clean_old_quotes(quote_history[i]), now)
      ]_vars

\* C19 witness: a buy naming a quote id that was never issued was CONFIRMED
\* at a fresh price
C19_Witness ==
    /\ lastCall.op = "buy" /\ lastCall.quote_id = UnknownQuoteId
    /\ lastCall.status = "CONFIRMED" /\ lastCall.priced = "fresh"

\* C20: with a price ceiling, buy returns PRICE_TOO_HIGH exactly when the
\* unit price it resolved (cached, negotiated or fresh) is strictly above the
\* ceiling; a price equal to the ceiling passes; without a ceiling the check
\* never fails.
C20_PriceCeiling ==
    [][(/\ calls' = calls + 1
        /\ lastCall'.op = "buy" /\ lastCall'.outcome = "returned")
          => \A req \in BuyRequests :
                 (/\ req.quote_id = lastCall'.quote_id
                  /\ req.ingredient_id \in Ingredients
                  /\ BuyCall(req))
                     => LET resolved == buy_price(req)
                            ceiling == req.max_acceptable_price_per_unit
                            refused == lastCall'.status = "FAILED_PRICE_TOO_HIGH"
                        IN  IF resolved.status # "OK" THEN ~refused
                            ELSE refused <=>
                                   (/\ ceiling # NoNumber
                                    /\ resolved.price_per_unit > ceiling[1])
      ]_vars

\* C20 witness: a buy with a cached quote id was refused on the ceiling and
\* the quote is still cached
C20_Witness ==
    /\ lastCall.op = "buy" /\ lastCall.status = "FAILED_PRICE_TOO_HIGH"
    /\ lastCall.quote_id \in DOMAIN quote_store
    /\ quote_store[lastCall.quote_id].quote.price_per_unit > 1150

\* C21: a buy that passes the request, item, quote and price ceiling checks
\* returns NO_STOCK exactly when its quantity is above the stock of the
\* ingredient (a quantity equal to the stock is CONFIRMED), and then with the
\* stock unchanged and total cost 0.
C21_NoStock ==
    [][(/\ calls' = calls + 1
        /\ lastCall'.op = "buy" /\ lastCall'.outcome = "returned")
          => \A req \in BuyRequests :
                 (/\ req.quote_id = lastCall'.quote_id
                  /\ req.ingredient_id \in Ingredients
                  /\ BuyCall(req))
                     => LET resolved == buy_price(req)
                            ceiling == req.max_acceptable_price_per_unit
                            passes ==
                                /\ resolved.status = "OK"
                                /\ ceiling # NoNumber
                                       => resolved.price_per_unit <= ceiling[1]
                            refused == lastCall'.status = "FAILED_NO_STOCK"
                        IN  /\ refused => passes
                            /\ passes =>
                                 IF req.quantity > stock[req.ingredient_id]
                                 THEN /\ refused
                                      /\ stock' = stock
                                      /\ lastCall'.total_cost = 0
                                 ELSE lastCall'.status = "CONFIRMED"
      ]_vars

\* C21 witness: a buy for exactly the stock that was left was CONFIRMED
C21_Witness ==
    /\ lastCall.op = "buy" /\ lastCall.status = "CONFIRMED"
    /\ \E i \in Ingredients :
           /\ stock[i] = 0
           /\ \E o \in DOMAIN orders :
                  /\ orders[o].order_id = created
                  /\ i \in DOMAIN orders[o].items
                  /\ orders[o].items[i].quantity < InitStock

\* C22: a buy that returns CONFIRMED takes exactly the requested quantity
\* from the stock of the requested ingredient and leaves every other stock,
\* leaves the referenced quote id in neither partition (whichever held it)
\* and every other cache entry as it was, and saves one order with expected
\* delivery = now + 24.
C22_ConfirmedBuyEffects ==
    [][(/\ calls' = calls + 1
        /\ lastCall'.op = "buy" /\ lastCall'.status = "CONFIRMED")
          => \A req \in BuyRequests :
                 (/\ req.quote_id = lastCall'.quote_id
                  /\ req.ingredient_id \in Ingredients
                  /\ BuyCall(req))
                     => LET i == req.ingredient_id
                            q == req.quote_id
                            o == created'
                        IN  /\ stock'[i] = stock[i] - req.quantity
                            /\ \A j \in Ingredients \ {i} : stock'[j] = stock[j]
                            /\ q \notin DOMAIN quote_store'
                                      \cup DOMAIN negotiated_quote_store'
                            /\ quote_store' = Del(quote_store, q)
                            /\ negotiated_quote_store'
                                   = Del(negotiated_quote_store, q)
                            /\ DOMAIN orders' = DOMAIN orders \cup {o}
                            /\ o \notin DOMAIN orders
                            /\ \A x \in DOMAIN orders : orders'[x] = orders[x]
                            /\ orders'[o].status = "CONFIRMED"
                            /\ orders'[o].quote_id = q
                            /\ orders'[o].business_id = req.business_id
                            /\ DOMAIN orders'[o].items = {i}
                            /\ orders'[o].items[i].quantity = req.quantity
                            /\ orders'[o].expected_delivery = now + 24
      ]_vars

\* C22 witness: at time 24 a buy was CONFIRMED at the negotiated price of its
\* quote id, which the negotiated partition held
C22_Witness ==
    /\ now = 24
    /\ lastCall.op = "buy" /\ lastCall.status = "CONFIRMED"
    /\ lastCall.priced = "cache"
    /\ lastCall.price < quoted[lastCall.quote_id]
    /\ lastCall.quote_id \notin DOMAIN quote_store \cup DOMAIN negotiated_quote_store
    /\ orders[created].expected_delivery = 48

\* C23: the order of every CONFIRMED buy is saved under its order id, so
\* that get_order(order_id) returns it and get_orders_by_business_id lists it
\* for its business, from then on; the order of a failed buy is not saved;
\* get_order and get_orders_by_business_id return what the repository holds
\* and change no state.
C23_ConfirmedOrdersAreSaved ==
    [][/\ (/\ calls' = calls + 1
           /\ lastCall'.op = "buy" /\ lastCall'.outcome = "returned")
             => \E o \in {created'} :
                IF lastCall'.status = "CONFIRMED"
                THEN /\ get_order(o)' # << >>
                     /\ \E saved \in {(get_order(o)')[1]} :
                        /\ saved.order_id = o
                        /\ saved.status = "CONFIRMED"
                        /\ saved.quote_id = lastCall'.quote_id
                        /\ saved.total_cost = lastCall'.total_cost
                        /\ saved \in get_orders_by_business_id(saved.business_id)'
                ELSE /\ get_order(o)' = << >>
                     /\ orders' = orders
       /\ \A x \in DOMAIN orders :
              /\ get_order(x)' = get_order(x)
              /\ \E saved \in {orders[x]} :
                     saved \in get_orders_by_business_id(saved.business_id)'
       /\ lastCall'.op \in {"get_order", "get_orders_by_business"}
              => UNCHANGED <<now, stock, quote_store, negotiated_quote_store,
                             quote_history, orders, issued, created, calls,
                             quoted>>
       /\ lastCall'.op = "get_order"
              => LET x == lastCall'.price IN
                 IF x \in DOMAIN orders
                 THEN /\ lastCall'.outcome = "returned"
                      /\ lastCall'.status = "CONFIRMED"
                      /\ lastCall'.total_cost = orders[x].total_cost
                      /\ lastCall'.quote_id = orders[x].quote_id
                 ELSE /\ lastCall'.outcome = "raised"
                      /\ lastCall'.status = "Order not found"
       /\ lastCall'.op = "get_orders_by_business"
              => LET of_business ==
                         {x \in DOMAIN orders :
                             orders[x].business_id = lastCall'.status}
                 IN  lastCall'.price = Cardinality(of_business)
      ]_vars

\* C23 witness: get_order returned a CONFIRMED order after a later buy failed
C23_Witness ==
    /\ lastCall.op = "get_order" /\ lastCall.outcome = "returned"
    /\ lastCall.status = "CONFIRMED"
    /\ lastCall.price < created
    /\ created \notin DOMAIN orders

\* the demand history of ingredient i after one price lookup: the entries of
\* the window, then now; every other history as it was
OneLookupRecorded(i) ==
    LET InWindow(timestamp) == timestamp >= now - DEMAND_WINDOW_HOURS
        kept == SelectSeq(quote_history[i], InWindow)
    IN  /\ Len(quote_history'[i]) = Len(kept) + 1
        /\ quote_history'[i][Len(kept) + 1] = now
        /\ SubSeq(quote_history'[i], 1, Len(kept)) = kept
        /\ \A j \in Ingredients \ {i} : quote_history'[j] = quote_history[j]

\* C24: every price lookup for a catalog ingredient appends exactly one
\* entry, with timestamp now, to the demand history of that ingredient:
\* every get_quote, one that then fails on the stock included, every buy
\* without a quote id and every buy whose quote id is in neither partition.
C24_LookupRecordsDemand ==
    [][/\ \A ingredient_id \in Ingredients, quantity \in Quantities :
              IsGetQuote(ingredient_id, quantity)
                  => OneLookupRecorded(ingredient_id)
       /\ (/\ calls' = calls + 1
           /\ lastCall'.op = "buy"
           /\ cached_entry(lastCall'.quote_id) = << >>)
             => \A req \in BuyRequests :
                    (/\ req.quote_id = lastCall'.quote_id
                     /\ req.ingredient_id \in Ingredients
                     /\ BuyCall(req))
                        => OneLookupRecorded(req.ingredient_id)
      ]_vars

\* C24 witness: a get_quote that failed on the stock left the second entry
\* of the demand history of its ingredient
C24_Witness ==
    /\ lastCall.op = "get_quote" /\ lastCall.status = "Insufficient stock"
    /\ \E i \in Ingredients :
           /\ Len(quote_history[i]) = 2
           /\ quote_history[i][2] = now

\* the number of lookups for ingredient i in the demand window, the one
\* being made included
RecentCount(i) ==
    Cardinality({k \in DOMAIN quote_history[i] :
                    quote_history[i][k] >= now - DEMAND_WINDOW_HOURS}) + 1

\* on every lookup step, for the ingredient's threshold T, hike h and recent
\* count n: the price is the volume price when n < T, and otherwise
\* Hiked(price, volume price, h, floor(n / T)) holds
DemandRule(Hiked(_, _, _, _)) ==
    \A ingredient_id \in Ingredients, quantity \in Quantities :
        (/\ calls' = calls + 1
         /\ lastCall'.op = "get_price"
         /\ LookupCall(ingredient_id, quantity))
            => LET T == DEMAND_PRICE_HIKES[ingredient_id].quote_threshold
                   h == DEMAND_PRICE_HIKES[ingredient_id].price_hike_percent
                   n == RecentCount(ingredient_id)
                   volume == volume_price(ingredient_id, quantity).price_per_unit
               IN  IF n < T
                   THEN lastCall'.price = volume
                   ELSE Hiked(lastCall'.price, volume, h, n \div T)

\* price = volume * (1 + h)^hikes, exactly
HikedExactly(price, volume, h, hikes) ==
    price * Pow(100, hikes) = volume * Pow(100 + h, hikes)

\* price = volume * (1 + h)^hikes rounded to a cent: the two are at most
\* half a cent apart
HikedToTheCent(price, volume, h, hikes) ==
    LET exact == volume * Pow(100 + h, hikes)
        scaled == price * Pow(100, hikes)
    IN  /\ 2 * (scaled - exact) <= Pow(100, hikes)
        /\ 2 * (exact - scaled) <= Pow(100, hikes)

\* C25 as stated: a lookup whose recent count n is below the threshold T
\* returns the volume price; with n >= T it returns the volume price times
\* (1 + h)^floor(n / T); once every earlier lookup has left the window the
\* multiplier is 1 again.
C25_DemandMultiplier == [][DemandRule(HikedExactly)]_vars

\* C25 amended: with n >= T the lookup returns the volume price times
\* (1 + h)^floor(n / T) rounded to two decimals.
C25_DemandMultiplierRounded == [][DemandRule(HikedToTheCent)]_vars

\* C25 witness: the sixth lookup for espresso beans within the window
\* returned 15.13, the base price 12.50 times 1.10^2 = 15.125 to the cent
C25_Witness ==
    /\ lastCall.op = "get_price"
    /\ lastCall.price = 1513
    /\ Len(quote_history["espresso_beans"]) = 6
    /\ \A k \in 1..6 :
           quote_history["espresso_beans"][k] >= now - DEMAND_WINDOW_HOURS

\* C26: the volume price of an ingredient and a quantity is the base price
\* less the discount of the tier with the largest minimum quantity <= the
\* quantity (no discount when there is none), to the cent, and it is not
\* above the volume price of any smaller quantity.
C26_VolumeDiscount ==
    lastCall.op = "volume" =>
        LET i == frame[1].ingredient_id
            quantity == frame[1].quantity
            tiers == VOLUME_DISCOUNT_TIERS[i]
            qualifying == {k \in DOMAIN tiers : tiers[k][1] <= quantity}
            highest == CHOOSE k \in qualifying :
                           \A j \in qualifying : tiers[j][1] <= tiers[k][1]
            discount == IF qualifying = {} THEN 0 ELSE tiers[highest][2]
            exact == base_price[i] * (100 - discount)
        IN  /\ 2 * (100 * lastCall.price - exact) <= 100
            /\ 2 * (exact - 100 * lastCall.price) <= 100
            /\ \A smaller \in VolumeQuantities :
                   smaller <= quantity =>
                       volume_price(i, smaller).price_per_unit >= lastCall.price

\* C26 witness: 15 kg of espresso beans, on the boundary of the second tier,
\* were priced at 10.62, the base price 12.50 less 15 % to the cent
C26_Witness ==
    /\ lastCall.op = "volume"
    /\ frame[1].ingredient_id = "espresso_beans" /\ frame[1].quantity = 15
    /\ lastCall.price = 1062

\* total is unit price x quantity rounded to two decimals: the two are at
\* most half a cent apart (the quantity in hundredths)
IsRoundedProduct(total, price_per_unit, hundredths) ==
    /\ 2 * (100 * total - price_per_unit * hundredths) <= 100
    /\ 2 * (price_per_unit * hundredths - 100 * total) <= 100

\* C27: the total price of a quote, of a negotiated quote and of an order
\* item is its unit price x the quantity rounded to two decimals; the total
\* of a negotiated quote is the negotiated unit price x the quantity that
\* was quoted, for every quantity > 0, fractions included.
C27_TotalIsPriceTimesQuantity ==
    lastCall.op = "total" =>
        LET f == frame[1] IN
        /\ IsRoundedProduct(lastCall.price, f.price_per_unit, f.quantity)
        /\ IsRoundedProduct(lastCall.total_cost, f.new_price_per_unit, f.quantity)
        /\ IsRoundedProduct(lastCall.item_total_price, f.new_price_per_unit,
                            f.quantity)

\* C28: an advance (also the one tick makes) to a time that is not after the
\* clock's time raises, leaves the time as it was and notifies no subscriber;
\* an advance to a later time goes on to set the time to exactly that time.
C28_AdvanceContract ==
    [][/\ (lastCall'.op \in {"advance", "tick"} /\ calls' = calls + 1)
           => IF lastCall'.price <= now
              THEN /\ lastCall'.outcome = "raised"
                   /\ now' = now
                   /\ frame'[1].delivered = frame[1].delivered
                   /\ pc' = pc
              ELSE /\ lastCall'.outcome = "entered"
                   /\ pc'[1] = "advance_store"
       /\ (pc[1] = "advance_store" /\ pc'[1] = "clock")
           => /\ now' = lastCall.price
              /\ lastCall'.outcome = "returned"
              /\ frame[1].subscribers # {}
                    => frame'[1].delivered = Append(frame[1].delivered, now')]_vars

\* an advance to the very time the clock shows has raised with a subscriber
\* registered that has been notified before
C28_Witness ==
    /\ lastCall.op = "advance"
    /\ lastCall.outcome = "raised"
    /\ lastCall.price = now
    /\ now > 0
    /\ frame[1].subscribers # {}
    /\ frame[1].delivered # << >>

\* C29: no step of the clock, whichever of its operations takes it, makes
\* the time that now() returns smaller.
C29_ClockMonotonic == [][now' >= now]_vars

\* the status the first failing check of the order missing ids, unknown
\* ingredient, quote ingredient mismatch, quote expiry, price ceiling, stock
\* gives a buy request, CONFIRMED when none fails
FirstFailingCheck(req) ==
    LET cached == IF req.quote_id = None THEN << >> ELSE cached_entry(req.quote_id) IN
    IF req.quote_id = None /\ req.ingredient_id = None
    THEN "FAILED_INVALID_REQUEST"
    ELSE IF req.ingredient_id \notin Ingredients
    THEN "FAILED_INVALID_ITEM"
    ELSE IF cached # << >> /\ cached[1].quote.ingredient_id # req.ingredient_id
    THEN "FAILED_INVALID_QUOTE:INGREDIENT_MISMATCH"
    ELSE IF cached # << >> /\ has_expired(cached[1])
    THEN "FAILED_INVALID_QUOTE:QUOTE_EXPIRED"
    ELSE IF price_too_high(req, buy_price(req).price_per_unit)
    THEN "FAILED_PRICE_TOO_HIGH"
    ELSE IF no_stock(get_stock(req.ingredient_id), req.quantity)
    THEN "FAILED_NO_STOCK"
    ELSE "CONFIRMED"

\* C30: every buy returns an order whose status is that of the first check
\* that fails for its request, in the order missing ids, unknown ingredient,
\* quote ingredient mismatch, quote expiry, price ceiling, stock.
C30_ReportsFirstFailingCheck ==
    [][\A req \in BuyRequests :
          (lastCall'.op = "buy" /\ calls' = calls + 1
             /\ lastCall'.quote_id = req.quote_id /\ BuyCall(req))
          => /\ lastCall'.outcome = "returned"
             /\ lastCall'.status = FirstFailingCheck(req)]_vars

\* C31: when a get_quote has inserted its quote and the two partitions hold
\* more entries together than the threshold, no entry that has expired is in
\* either partition when the call returns.
C31_SweepAboveThreshold ==
    [][(/\ lastCall'.op = "get_quote"
        /\ calls' = calls + 1
        /\ lastCall'.outcome = "returned"
        /\ Cardinality(DOMAIN quote_store) + 1
               + Cardinality(DOMAIN negotiated_quote_store)
             > QUOTE_CLEANUP_THRESHOLD)
       => /\ \A q \in DOMAIN quote_store' : ~(quote_store'[q].expires_at <= now')
          /\ \A q \in DOMAIN negotiated_quote_store' :
                ~(negotiated_quote_store'[q].expires_at <= now')]_vars

\* C32: with concurrent lookups at one clock time, once no lookup is under
\* way the history of each ingredient holds one timestamp for every lookup
\* that returned, and the count a lookup prices with is at least the number
\* of lookups for its ingredient that returned before it, plus its own.
C32_AtomicDemandHistory ==
    [][/\ (\A t \in Threads : pc'[t] = "idle")
           => \A i \in Ingredients : Len(quote_history'[i]) = Completed(i)'
       /\ \A t \in Threads :
             (pc[t] = "count" /\ pc'[t] = "idle")
             => lastCall'.total_cost >= Completed(frame[t].ingredient_id) + 1]_vars

\* the quantity of ingredient i sold by the saved (CONFIRMED) orders ids
RECURSIVE SoldBy(_, _)
SoldBy(ids, i) ==
    IF ids = {} THEN 0
    ELSE LET o == CHOOSE x \in ids : TRUE
         IN  (IF i \in DOMAIN orders[o].items
              THEN orders[o].items[i].quantity ELSE 0) + SoldBy(ids \ {o}, i)

\* C2: whatever the interleaving of two concurrent buy calls, the stock never
\* becomes negative and the CONFIRMED orders never sell more of an ingredient
\* than there was (of two buys only one of which the stock can serve, at most
\* one is CONFIRMED).
C2_AtomicConsume ==
    \A i \in Ingredients :
        stock[i] >= 0 /\ SoldBy(DOMAIN orders, i) <= InitStock

\* C35: a quote id is negotiated down at most once.  An issued id that has
\* left the unnegotiated partition never returns to it, and a negotiate call
\* on an id that is in the negotiated partition (or in neither) raises the
\* not-found error and leaves the negotiated partition as it was.
C35_NegotiatedOnce ==
    [][\A q \in IssuedIds :
          /\ q \notin DOMAIN quote_store => q \notin DOMAIN quote_store'
          /\ (/\ lastCall'.op = "negotiate"
              /\ calls' = calls + 1
              /\ lastCall'.quote_id = q
              /\ \/ q \in DOMAIN negotiated_quote_store
                 \/ q \notin DOMAIN quote_store)
             => /\ lastCall'.outcome = "raised"
                /\ lastCall'.status = "Quote not found."
                /\ negotiated_quote_store' = negotiated_quote_store]_vars

\* a negotiate call on an id that is in the negotiated partition has raised
\* the not-found error
C35_Witness ==
    /\ lastCall.op = "negotiate"
    /\ lastCall.outcome = "raised"
    /\ lastCall.status = "Quote not found."
    /\ lastCall.quote_id \in DOMAIN negotiated_quote_store

\* C36: a buy that is CONFIRMED with a quote id found in the cache pays the
\* unit price of the cached quote for the quantity of the request, whatever
\* that quantity and whatever demand has been recorded: its price is taken
\* from the cache, its total is that price times the quantity taken from the
\* stock, and it records no demand.
C36_BuyPaysCachedPrice ==
    [][\A q \in IssuedIds :
          (/\ calls' = calls + 1
           /\ lastCall'.op = "buy"
           /\ lastCall'.status = "CONFIRMED"
           /\ lastCall'.quote_id = q
           /\ cached_entry(q) # << >>)
          => LET i == cached_entry(q)[1].quote.ingredient_id IN
             /\ lastCall'.priced = "cache"
             /\ lastCall'.price = cached_entry(q)[1].quote.price_per_unit
             /\ lastCall'.total_cost
                    = cached_entry(q)[1].quote.price_per_unit * (stock[i] - stock'[i])
             /\ stock[i] - stock'[i] \in Quantities
             /\ quote_history' = quote_history]_vars

\* a buy of 2 espresso_beans was CONFIRMED at 11.50, the unit price of a
\* quote issued for 5, when a fresh lookup for 2 would give the price after
\* a demand hike
C36_Witness ==
    /\ lastCall.op = "buy"
    /\ lastCall.status = "CONFIRMED"
    /\ lastCall.priced = "cache"
    /\ lastCall.price = 1150
    /\ lastCall.total_cost = 2300
    /\ get_price("espresso_beans", 2).price_per_unit = 1375

\* the statuses of a failed buy that C37 names
FailedWithLiveQuote ==
    {"FAILED_INVALID_QUOTE:INGREDIENT_MISMATCH", "FAILED_PRICE_TOO_HIGH",
     "FAILED_NO_STOCK", "FAILED_SYSTEM_ERROR"}

\* C37: a buy that references a cached, unexpired quote id and returns
\* INGREDIENT_MISMATCH, PRICE_TOO_HIGH, NO_STOCK or SYSTEM_ERROR leaves both
\* partitions as they were, and a buy with the id, for the quote's
\* ingredient, a quantity the stock covers and no price ceiling, would then
\* be CONFIRMED at the unit price of the cached quote.
C37_FailedBuyKeepsQuote ==
    [][\A q \in IssuedIds :
          (/\ calls' = calls + 1
           /\ lastCall'.op = "buy"
           /\ lastCall'.quote_id = q
           /\ lastCall'.status \in FailedWithLiveQuote
           /\ cached_entry(q) # << >>
           /\ ~has_expired(cached_entry(q)[1]))
          => /\ quote_store' = quote_store
             /\ negotiated_quote_store' = negotiated_quote_store
             /\ \A later \in BuyRequests :
                   (/\ later.quote_id = q
                    /\ later.ingredient_id = cached_entry(q)[1].quote.ingredient_id
                    /\ later.max_acceptable_price_per_unit = NoNumber
                    /\ later.quantity <= stock'[later.ingredient_id])
                   => /\ buy(later)'.value.status = "CONFIRMED"
                      /\ buy(later)'.priced = "cache"
                      /\ buy(later)'.value.total_cost
                             = cached_entry(q)[1].quote.price_per_unit * later.quantity]_vars

\* a buy with a cached, unexpired quote id has returned PRICE_TOO_HIGH and
\* the id is still cached
C37_Witness ==
    /\ lastCall.op = "buy"
    /\ lastCall.status = "FAILED_PRICE_TOO_HIGH"
    /\ lastCall.quote_id \in DOMAIN quote_store
    /\ ~has_expired(quote_store[lastCall.quote_id])

\* C38 as stated: once a buy referencing a quote id has returned
\* QUOTE_EXPIRED, no buy referencing the id with the same ingredient is
\* CONFIRMED.
C38_ExpiryIsFinal ==
    (lastCall.op = "buy" /\ lastCall.status = "CONFIRMED")
        => \A i \in DOMAIN orders[created].items :
               <<lastCall.quote_id, i>> \notin frame[1].expired

\* C38 amended: once a buy referencing a quote id has returned QUOTE_EXPIRED,
\* the id's entry stays expired as long as it is cached, and a buy
\* referencing the id with the same ingredient returns QUOTE_EXPIRED while
\* the entry is cached; once a sweep has removed the entry, the buy ends as
\* the same buy without a quote id does, priced by a fresh lookup.
C38_ExpiryIsFinalWhileCached ==
    [][\A pair \in frame[1].expired :
          /\ cached_entry(pair[1]) # << >> => has_expired(cached_entry(pair[1])[1])
          /\ \A req \in BuyRequests :
                (/\ req.quote_id = pair[1]
                 /\ req.ingredient_id = pair[2]
                 /\ lastCall'.op = "buy"
                 /\ lastCall'.quote_id = pair[1]
                 /\ ReuseBuyCall(req))
                => IF cached_entry(pair[1]) # << >>
                   THEN lastCall'.status = "FAILED_INVALID_QUOTE:QUOTE_EXPIRED"
                   ELSE /\ lastCall'.priced # "cache"
                        /\ lastCall'.status
                               = buy([req EXCEPT !.quote_id = None]).value.status
                        /\ lastCall'.price
                               = buy([req EXCEPT !.quote_id = None])
                                     .value.items[req.ingredient_id].price_per_unit_paid]_vars

\* a buy with a quote id that an earlier buy reported as expired was
\* CONFIRMED at a fresh price
C38_Witness ==
    /\ lastCall.op = "buy"
    /\ lastCall.status = "CONFIRMED"
    /\ lastCall.priced = "fresh"
    /\ <<lastCall.quote_id, "espresso_beans">> \in frame[1].expired
    /\ "espresso_beans" \in DOMAIN orders[created].items

\* C39: the sweep removes no live entry, on its own and when a get_quote
\* runs it: every entry of either partition with expires_at > now before it
\* is there, with the same content, after it.
C39_SweepKeepsLiveEntries ==
    [][(lastCall'.op \in {"cleanup", "get_quote"} /\ calls' = calls + 1)
       => /\ \A q \in DOMAIN quote_store :
                quote_store[q].expires_at > now
                => q \in DOMAIN quote_store' /\ quote_store'[q] = quote_store[q]
          /\ \A q \in DOMAIN negotiated_quote_store :
                negotiated_quote_store[q].expires_at > now
                => /\ q \in DOMAIN negotiated_quote_store'
                   /\ negotiated_quote_store'[q] = negotiated_quote_store[q]]_vars

\* a sweep has removed an entry and a live entry of the negotiated partition
\* is still cached
C39_Witness ==
    /\ lastCall.op = "cleanup"
    /\ lastCall.price > 0
    /\ \E q \in DOMAIN negotiated_quote_store :
          negotiated_quote_store[q].expires_at > now

\* C40: when the fallback decides, a negotiate call is accepted, and its
\* quote id moved to the negotiated partition, only for a quote whose unit
\* price is strictly above the base price of its ingredient; a quote priced
\* at or below the base price stays where it is.
C40_FallbackNeedsPriceAboveBase ==
    [][\A q \in DOMAIN quote_store :
          (/\ lastCall'.op = "negotiate"
           /\ calls' = calls + 1
           /\ lastCall'.quote_id = q)
          => LET quote == quote_store[q].quote IN
             /\ (lastCall'.status = "ACCEPTED" \/ q \in DOMAIN negotiated_quote_store')
                   => quote.price_per_unit > base_price[quote.ingredient_id]
             /\ quote.price_per_unit <= base_price[quote.ingredient_id]
                   => /\ quote_store' = quote_store
                      /\ negotiated_quote_store' = negotiated_quote_store]_vars

\* the fallback has accepted an offer for a quote priced above the base price
\* and the id is in the negotiated partition
C40_Witness ==
    /\ lastCall.op = "negotiate"
    /\ lastCall.status = "ACCEPTED"
    /\ lastCall.quote_id \in DOMAIN negotiated_quote_store
    /\ negotiated_quote_store[lastCall.quote_id].original_price
           > base_price["espresso_beans"]

\* C33: after any sequence of get_quote, negotiate and buy calls made one
\* after the other, the stock of each ingredient is its initial stock minus
\* the quantities of the CONFIRMED orders for it.
C33_StockIsInitialMinusSold ==
    \A i \in Ingredients : stock[i] = InitStock - SoldBy(DOMAIN orders, i)

\* two buys of one ingredient have been CONFIRMED one after the other
C33_Witness ==
    /\ lastCall.op = "buy" /\ lastCall.status = "CONFIRMED"
    /\ \E i \in Ingredients, a, b \in DOMAIN orders :
          /\ a # b
          /\ i \in DOMAIN orders[a].items
          /\ i \in DOMAIN orders[b].items
          /\ stock[i] = InitStock - orders[a].items[i].quantity
                                  - orders[b].items[i].quantity

\* C34: a buy that is CONFIRMED at the unit price it read from the cache for
\* its quote id is the only one: no CONFIRMED order that references the id
\* at that unit price exists when it returns its own, so of two concurrent
\* buys with one live quote id at most one is CONFIRMED at the cached price.
C34_OneBuyPerCachedQuote ==
    [][\A t \in Threads :
          (/\ pc[t] = "confirm" /\ pc'[t] = "idle"
           /\ frame[t].priced = "cache")
          => \A o \in OrdersFor(frame[t].req.quote_id) :
                orders[o].items[frame[t].req.ingredient_id].price_per_unit_paid
                    # frame[t].price_per_unit]_vars

\* C10: once a buy has been CONFIRMED for a quote id, the id is in neither
\* partition and stays absent, also when a negotiate on the id was in flight.
C10_ConsumedStaysAbsent ==
    \A q \in IssuedIds :
        OrdersFor(q) # {} =>
            q \notin DOMAIN quote_store \cup DOMAIN negotiated_quote_store
====
